---- MODULE Spec2Model ----
(***************************************************************************)
(* Model of bridgePy.connector.Connect: the session manager that sits      *)
(* between application callers and the paho MQTT client.                   *)
(*                                                                         *)
(* Strings are sequences of one-character strings, so that prefixing a     *)
(* suffix and splitting a topic at the version marker "v1/" are computed   *)
(* character by character, as the code does.                               *)
(***************************************************************************)
EXTENDS Integers, Sequences, FiniteSets, TLC

\* ------------------------------------------------------------------ bounds

\* Number of concurrent caller threads; each issues one public operation.
NumCallers == 2
\* Longest enumerated request list (the lists at the 1024 limit are separate).
MaxListLen == 2
\* SUBACK deliveries the broker makes in all, repeated ones included.
MaxAcks == 2
\* Categories with a registered handler, and inbound messages, in a behaviour.
MaxRegistered == 2
MaxMessages == 2
MaxSuffixLen == 2
\* Public operations a caller goes through in a behaviour.
MaxOps == 3

\* ----------------------------------------------------------- program data

\* Python's None (absent callback, absent dict entry, absent mid).
None == "None"

\* len(subscriptionList) <= 1024
TopicLimit == 1024

\* Status codes written by the connector.
StatusNullRequest == 101
StatusTopicCount == 102
StatusNothingValid == 103
StatusInvalidTopic == 104
StatusException == -1
StatusTokenRejected == 1
StatusAlreadyConnected == 105
HostNotFound == 11001

\* Namespace prefixes of the eleven categories.
V1 == <<"v", "1", "/">>
ProdMarketfeed ==
    <<"p", "r", "o", "d", "/", "m", "a", "r", "k", "e", "t", "f", "e", "e", "d", "/">>
ProdUpdates == <<"p", "r", "o", "d", "/", "u", "p", "d", "a", "t", "e", "s", "/">>
mw_topic == ProdMarketfeed \o <<"m", "w", "/">> \o V1
index_topic == ProdMarketfeed \o <<"i", "n", "d", "e", "x", "/">> \o V1
oi_topic == ProdMarketfeed \o <<"o", "i", "/">> \o V1
market_status ==
    ProdMarketfeed \o <<"m", "a", "r", "k", "e", "t", "s", "t", "a", "t", "u", "s", "/">> \o V1
lpp == ProdMarketfeed \o <<"l", "p", "p", "/">> \o V1
high_52_week ==
    ProdMarketfeed \o <<"h", "i", "g", "h", "5", "2", "w", "e", "e", "k", "/">> \o V1
low_52_week ==
    ProdMarketfeed \o <<"l", "o", "w", "5", "2", "w", "e", "e", "k", "/">> \o V1
upper_circuit ==
    ProdMarketfeed \o <<"u", "p", "p", "e", "r", "c", "i", "r", "c", "u", "i", "t", "/">> \o V1
lower_circuit ==
    ProdMarketfeed \o <<"l", "o", "w", "e", "r", "c", "i", "r", "c", "u", "i", "t", "/">> \o V1
order_updates == ProdUpdates \o <<"o", "r", "d", "e", "r", "/">> \o V1
trade_updates == ProdUpdates \o <<"t", "r", "a", "d", "e", "/">> \o V1

Categories ==
    { mw_topic, index_topic, oi_topic, market_status, lpp, high_52_week, low_52_week,
      upper_circuit, lower_circuit, order_updates, trade_updates }

\* ------------------------------------------------------------- validation

\* The character class [0-9a-z/] of the pattern r'^[0-9a-z/]+$'.
PatternChars ==
    { "0", "1", "2", "3", "4", "5", "6", "7", "8", "9", "/",
      "a", "b", "c", "d", "e", "f", "g", "h", "i", "j", "k", "l", "m",
      "n", "o", "p", "q", "r", "s", "t", "u", "v", "w", "x", "y", "z" }

\* A list entry that is not a string (a JSON number, null, list or object).
NonString == <<"<not-a-str>">>

IsStr(e) == e # NonString

\* Seeded fault: a validator that accepts every non-empty string.
fullmatch_nonempty(topic) == Len(topic) > 0

\* Seeded fault: re.match in place of re.fullmatch, whose '$' also matches
\* before a newline that ends the string.
fullmatch_dollar(topic) ==
    LET body == IF Len(topic) > 1 /\ topic[Len(topic)] = "\n"
                THEN SubSeq(topic, 1, Len(topic) - 1) ELSE topic
    IN  /\ Len(body) > 0
        /\ \A i \in 1..Len(body) : body[i] \in PatternChars

\* re.fullmatch(pattern, topic) on a string: one or more class characters
\* spanning the whole string.
fullmatch(topic) ==
    /\ Len(topic) > 0
    /\ \A i \in 1..Len(topic) : topic[i] \in PatternChars

\* ds.SubscribeResult(resultCode, result, topic).to_dict()
SubscribeResult(resultCode, result, topic) ==
    [topic |-> topic, resultCode |-> resultCode, result |-> result]

\* The loop of the builders runs until the first entry that is not a string:
\* re.fullmatch raises TypeError there and the except clause ends the loop.
FirstNonString(list) ==
    IF \E i \in 1..Len(list) : ~IsStr(list[i])
    THEN CHOOSE i \in 1..Len(list) :
            /\ ~IsStr(list[i])
            /\ \A j \in 1..(i - 1) : IsStr(list[j])
    ELSE Len(list) + 1

Visited(list) == SubSeq(list, 1, FirstNonString(list) - 1)

ValidOf(list) == SelectSeq(Visited(list), fullmatch)

\* Seeded fault: a per-topic failure carrying the batch's failure code.
InvalidTopicResult_103(topic) ==
    SubscribeResult(StatusNothingValid, "Invalid topic", topic)

\* ds.SubscribeResult(104, "Invalid topic", topic).to_dict()
InvalidTopicResult(topic) == SubscribeResult(StatusInvalidTopic, "Invalid topic", topic)

FailedOf(list) ==
    LET Bad(t) == ~fullmatch(t)
        bad == SelectSeq(Visited(list), Bad)
    IN  [i \in 1..Len(bad) |-> InvalidTopicResult(bad[i])]

\* Connect._build_subscription_topics: valid entries become (prefix + topic, 0)
\* tuples, the others SubscribeResult(104, "Invalid topic", topic).
build_subscription_topics(list, topic_prefix) ==
    LET valid == ValidOf(list)
    IN  [ valid_topics |-> [i \in 1..Len(valid) |-> <<topic_prefix \o valid[i], 0>>],
          failedTopics |-> FailedOf(list),
          raised |-> FirstNonString(list) <= Len(list) ]

\* Seeded fault: an unsubscribe builder that leaves the category prefix out.
build_unsubscribe_options_bare(list, topic_prefix) ==
    [ valid_topics |-> ValidOf(list),
      failedTopics |-> FailedOf(list),
      raised |-> FirstNonString(list) <= Len(list) ]

\* Connect._build_unsubscribe_options: valid entries become prefix + topic.
build_unsubscribe_options(list, topic_prefix) ==
    LET valid == ValidOf(list)
    IN  [ valid_topics |-> [i \in 1..Len(valid) |-> topic_prefix \o valid[i]],
          failedTopics |-> FailedOf(list),
          raised |-> FirstNonString(list) <= Len(list) ]

\* Seeded fault: a size check that lets a list of 1025 through.
ListRejected_above(list) == list = << >> \/ Len(list) > TopicLimit + 1

\* if req_data["subscriptionList"] and len(...) <= 1024: ... else: return 102
ListRejected(list) == list = << >> \/ Len(list) > TopicLimit

\* The exceptions raised in the connector, all subclasses of Exception.
Exceptions ==
    { "TypeError", "IndexError", "KeyError", "JSONDecodeError", "AttributeError",
      "ValueError", "OSError", "gaierror", "ConnectionRefusedError", "timeout" }

\* The clause "except Exception as ex" catches every one of them.
ExceptException(exc) == exc \in Exceptions

\* mqtt.error_string(rc) for the statuses the transport reports here.
error_string(rc) ==
    CASE rc = 0 -> "No error."
      [] rc = 4 -> "The client is not currently connected."
      [] OTHER -> "Unknown error."

\* ------------------------------------------------------------------ inputs

\* A request string given to a public operation: None or "" (kind "null"),
\* text that is not JSON ("badjson"), JSON without the list key ("nokey"), or
\* JSON carrying the list ("list"; <<>> stands for [] and for null).
Request(kind, list) == [list |-> list, kind |-> kind]

\* Statuses paho's subscribe()/unsubscribe() return: MQTT_ERR_SUCCESS and
\* MQTT_ERR_NO_CONN.
TransportStatuses == {0, 4}

\* Reason codes of a SUBACK: granted QoS 0, or failure (0x80).
ReasonCodes == {0, 128}

CallerThreads == 1..NumCallers

\* The thread of the transport's network loop (loop_start), which runs every
\* transport callback.
DeliveryThreads == {"loop"}

\* The registration properties of the eleven categories.
Properties ==
    { "on_feed_data_received", "on_index_data_received",
      "on_open_interest_data_received", "on_market_status_data_received",
      "on_lpp_data_received", "on_high_52_week_data_received",
      "on_low_52_week_data_received", "on_lower_circuit_data_received",
      "on_upper_circuit_data_received", "on_order_updates_received",
      "on_trade_updates_received" }

\* The category a property registers the handler of (its name and docstring).
PropertyCategory(p) ==
    CASE p = "on_feed_data_received" -> mw_topic
      [] p = "on_index_data_received" -> index_topic
      [] p = "on_open_interest_data_received" -> oi_topic
      [] p = "on_market_status_data_received" -> market_status
      [] p = "on_lpp_data_received" -> lpp
      [] p = "on_high_52_week_data_received" -> high_52_week
      [] p = "on_low_52_week_data_received" -> low_52_week
      [] p = "on_lower_circuit_data_received" -> lower_circuit
      [] p = "on_upper_circuit_data_received" -> upper_circuit
      [] p = "on_order_updates_received" -> order_updates
      [] p = "on_trade_updates_received" -> trade_updates

\* The topic argument the property's setter passes to __set_callback.
SetterTopic(p) ==
    CASE p = "on_feed_data_received" -> mw_topic
      [] p = "on_index_data_received" -> index_topic
      [] p = "on_open_interest_data_received" -> oi_topic
      [] p = "on_market_status_data_received" -> market_status
      [] p = "on_lpp_data_received" -> lpp
      [] p = "on_high_52_week_data_received" -> high_52_week
      [] p = "on_low_52_week_data_received" -> high_52_week
      [] p = "on_lower_circuit_data_received" -> lower_circuit
      [] p = "on_upper_circuit_data_received" -> upper_circuit
      [] p = "on_order_updates_received" -> order_updates
      [] p = "on_trade_updates_received" -> trade_updates

\* Data handlers the application may register.
DataHandlers == {"h1", "h2"}

\* Registered callbacks are named; None is the unregistered slot.
AckCallbacks == {"on_ack"}
ErrorCallbacks == {"on_err"}

\* ------------------------------------------------------------------- state

VARIABLES
    subscriptions,              \* self.__subscriptions: mid -> [(topic, qos)]
    topic_handler,              \* self.__topic_handler: prefix -> handler
    on_acknowledge_response,    \* self.__on_acknowledge_response
    on_error,                   \* self.__on_error
    private_attrs,              \* self._Connect__on_*: what the property getters read
    set_attrs,                  \* the attributes setattr(self, attr_name, func) wrote
    count,                      \* self.count: inbound messages seen
    last_mid,                   \* the transport's last message id
    sub_calls,                  \* log of transport subscribe() calls
    unsub_calls,                \* log of transport unsubscribe() calls
    suback_due,                 \* mids whose SUBACK the broker still owes
    suback_log,                 \* the SUBACKs delivered, in delivery order
    pc,                         \* caller thread -> position in its operation
    frame,                      \* caller thread -> locals of its operation
    result,                     \* caller thread -> the value returned
    hpc,                        \* delivery thread -> position in its callback
    hframe,                     \* delivery thread -> locals of its callback
    ack_events,                 \* what the acknowledgment callback received
    error_events,               \* what the error callback received
    handler_calls,              \* what the data handlers received
    escaped,                    \* exceptions that left a method of Connect
    removed,                    \* mids deleted from self.__subscriptions, in order
    recorded,                   \* every mid ever put in self.__subscriptions -> its list
    at_return,                  \* caller thread -> was its mid in the table on return
    state,                      \* the transport's connection state (paho's _state)
    loop_thread,                \* the transport's network-loop thread (loop_start)
    bindings,                   \* the transport callbacks bound to methods of Connect
    link_calls,                 \* log of transport connect/disconnect/loop calls
    link_events,                \* log of the on_connect/on_disconnect callbacks run
    returns                     \* the public operations a caller has completed, in order

vars ==
    << subscriptions, topic_handler, on_acknowledge_response, on_error, private_attrs,
       set_attrs, count, last_mid, sub_calls, unsub_calls, suback_due, suback_log, pc,
       frame, result, hpc, hframe, ack_events, error_events, handler_calls, escaped,
       removed, recorded, at_return, state, loop_thread, bindings, link_calls,
       link_events, returns >>

callback_vars == << on_acknowledge_response, on_error >>
link_vars == << state, loop_thread, bindings, link_calls, link_events, returns >>
registry_vars == << topic_handler, private_attrs, set_attrs >>
connect_vars == << subscriptions, callback_vars, link_vars, registry_vars, count >>
transport_vars == << last_mid, sub_calls, unsub_calls, suback_due, suback_log >>
caller_vars == << pc, frame, result, at_return >>
delivery_vars == << hpc, hframe >>
table_history == << removed, recorded >>
observer_vars == << ack_events, error_events, handler_calls, escaped, table_history >>

NoRequest == Request(None, << >>)

NoFrame ==
    [ topic_prefix |-> << >>, valid_topics |-> << >>, failedTopics |-> << >>, rc |-> 0,
      op |-> None, req |-> NoRequest, mid |-> 0 ]

NoResult == [failedTopics |-> << >>, status |-> None, message |-> None]

NoHFrame ==
    [ topic |-> << >>, mid |-> 0, reason_code_list |-> << >>, ls |-> << >>,
      split_topic |-> << >>, payload |-> 0 ]

\* The callbacks connect_host binds on the transport.
TransportCallbacks ==
    { "on_message", "on_disconnect", "on_connect", "on_subscribe", "on_unsubscribe" }

\* Connect.__init__, the tables and callbacks: empty tables, no callbacks; the
\* callbacks the application registers before it starts are chosen here.
InitTables ==
    /\ subscriptions = << >>
    /\ topic_handler = << >>
    /\ on_acknowledge_response \in AckCallbacks \cup {None}
    /\ on_error \in ErrorCallbacks \cup {None}
    /\ private_attrs = [p \in Properties |-> None]
    /\ set_attrs = << >>
    /\ count = 0
    /\ last_mid = 0
    /\ sub_calls = << >>
    /\ unsub_calls = << >>
    /\ suback_due = {}
    /\ suback_log = << >>
    /\ pc = [t \in CallerThreads |-> "idle"]
    /\ frame = [t \in CallerThreads |-> NoFrame]
    /\ result = [t \in CallerThreads |-> NoResult]
    /\ hpc = [d \in DeliveryThreads |-> "idle"]
    /\ hframe = [d \in DeliveryThreads |-> NoHFrame]
    /\ ack_events = << >>
    /\ error_events = << >>
    /\ handler_calls = << >>
    /\ escaped = << >>
    /\ removed = << >>
    /\ recorded = << >>
    /\ at_return = [t \in CallerThreads |-> None]
    /\ link_calls = << >>
    /\ link_events = << >>
    /\ returns = << >>

\* The state after construction: a transport client that never connected, no
\* network loop, no callback bound.
Init ==
    /\ InitTables
    /\ state = "new"
    /\ loop_thread = "none"
    /\ bindings = {}

\* The state of an established session: connect_host has returned 0 and the
\* CONNACK has been handled; the logs start here.
InitConnected ==
    /\ InitTables
    /\ state = "connected"
    /\ loop_thread = "running"
    /\ bindings = TransportCallbacks

Err(code, msg) == [code |-> code, msg |-> msg]

\* Seeded fault: an error report that never reaches the callback.
Report_dropped(events, errs) == events

\* if self.__on_error: self.__on_error(code, msg)
Report(events, errs) == IF on_error # None THEN events \o errs ELSE events

\* A callback's "try: ... except Exception as ex: if self.__on_error: ..." when
\* the body raises exc (None: it does not): what the error callback has
\* received afterwards, and what has left the callback.
ErrorsAfter(exc) ==
    IF exc # None /\ ExceptException(exc)
    THEN Report(error_events, <<Err(StatusException, exc)>>)
    ELSE error_events

EscapedAfter(where, exc) ==
    IF exc # None /\ ~ExceptException(exc)
    THEN Append(escaped, [exc |-> exc, where |-> where])
    ELSE escaped

\* Seeded fault: an insertion that is lost.
Put_dropped(table, key, value) == table

\* table[key] = value
Put(table, key, value) ==
    [k \in DOMAIN table \cup {key} |-> IF k = key THEN value ELSE table[k]]

\* Seeded fault: a deletion that leaves the entry in place.
Del_kept(table, key) == table

\* del table[key]
Del(table, key) == [k \in DOMAIN table \ {key} |-> table[k]]

\* table.get(key)
Get(table, key) == IF key \in DOMAIN table THEN table[key] ELSE None

\* ---------------------------------------------------------- subscribe

\* ds.SubscribeFeedResponse(status, message, failedTopics)
SubscribeFeedResponse(status, message, failedTopics) ==
    [failedTopics |-> failedTopics, status |-> status, message |-> message]

\* ds.UnsubscribeFeedResponse(status, message, failedTopics)
UnsubscribeFeedResponse(status, message, failedTopics) ==
    [failedTopics |-> failedTopics, status |-> status, message |-> message]

\* What the builder's own except clause reports when an entry made it raise.
BuilderErrors(b) ==
    IF b.raised THEN <<Err(StatusException, "TypeError")>> ELSE << >>

\* Connect.__subscribe up to the transport call: what it returns without
\* calling the transport (ret), or the topics it is about to submit.
SubscribePlan(req, topic_prefix) ==
    LET b == build_subscription_topics(req.list, topic_prefix)
    IN  CASE req.kind = "null" ->
               [ ret |-> TRUE, errors |-> << >>, built |-> b,
                 response |-> SubscribeFeedResponse(
                                StatusNullRequest, "Request cannot be null", << >>) ]
          [] req.kind = "badjson" ->
               [ ret |-> TRUE, errors |-> <<Err(StatusException, "Invalid JSON")>>,
                 built |-> b,
                 response |-> SubscribeFeedResponse(StatusException, "Invalid JSON", << >>) ]
          [] req.kind = "nokey" ->
               [ ret |-> TRUE, errors |-> <<Err(StatusException, "KeyError")>>,
                 built |-> b,
                 response |-> SubscribeFeedResponse(StatusException, "KeyError", << >>) ]
          [] ListRejected(req.list) ->
               [ ret |-> TRUE, errors |-> << >>, built |-> b,
                 response |-> SubscribeFeedResponse(
                                StatusTopicCount, "TopicList cannot be null", << >>) ]
          [] b.valid_topics = << >> ->
               [ ret |-> TRUE, errors |-> BuilderErrors(b), built |-> b,
                 response |-> SubscribeFeedResponse(
                                StatusNothingValid, "Subscripton failed", b.failedTopics) ]
          [] OTHER ->
               [ ret |-> FALSE, errors |-> BuilderErrors(b), built |-> b,
                 response |-> NoResult ]

\* The transport's subscribe(topics): it reports rc and, when it accepted the
\* packet, the next message id; the broker then owes the SUBACK for that id.
TransportSubscribe(t, topics, rc) ==
    LET mid == IF rc = 0 THEN last_mid + 1 ELSE 0
    IN  /\ last_mid' = IF rc = 0 THEN mid ELSE last_mid
        /\ sub_calls' = Append(sub_calls, [rc |-> rc, mid |-> mid, topics |-> topics, by |-> t])
        /\ suback_due' = IF rc = 0 THEN suback_due \cup {mid} ELSE suback_due
        /\ UNCHANGED << unsub_calls, suback_log >>

\* Connect.__subscribe, from entry to the return of self.__mqttClient.subscribe
\* (or to the return statement of a request that is not submitted).
SubscribeCall(t, topic_prefix, req) ==
    LET plan == SubscribePlan(req, topic_prefix)
    IN  /\ pc[t] = "idle"
        /\ error_events' = Report(error_events, plan.errors)
        /\ IF plan.ret
           THEN /\ pc' = [pc EXCEPT ![t] = "done"]
                /\ result' = [result EXCEPT ![t] = plan.response]
                /\ frame' = [frame EXCEPT ![t] =
                                [NoFrame EXCEPT !.op = "subscribe", !.req = req,
                                                !.topic_prefix = topic_prefix]]
                /\ UNCHANGED transport_vars
           ELSE \E rc \in TransportStatuses :
                /\ TransportSubscribe(t, plan.built.valid_topics, rc)
                /\ pc' = [pc EXCEPT ![t] = "sub_called"]
                /\ frame' = [frame EXCEPT ![t] =
                                [ topic_prefix |-> topic_prefix,
                                  valid_topics |-> plan.built.valid_topics,
                                  failedTopics |-> plan.built.failedTopics,
                                  rc |-> rc,
                                  op |-> "subscribe",
                                  req |-> req,
                                  mid |-> IF rc = 0 THEN last_mid + 1 ELSE 0 ]]
                /\ UNCHANGED result
        /\ UNCHANGED << connect_vars, delivery_vars, at_return, ack_events, handler_calls,
                        escaped, table_history >>

\* Seeded fault: the id is recorded whatever the transport reported.
SubscribeRecord_always(t) ==
    /\ pc[t] = "sub_called"
    /\ subscriptions' = [k \in DOMAIN subscriptions \cup {frame[t].mid} |->
                            IF k = frame[t].mid THEN frame[t].valid_topics
                            ELSE subscriptions[k]]
    /\ recorded' = [k \in DOMAIN recorded \cup {frame[t].mid} |->
                       IF k = frame[t].mid THEN frame[t].valid_topics ELSE recorded[k]]
    /\ pc' = [pc EXCEPT ![t] = "sub_recorded"]
    /\ UNCHANGED << callback_vars, link_vars, registry_vars, count, transport_vars, frame, result,
                    at_return, delivery_vars, ack_events, error_events, handler_calls,
                    escaped, removed >>

\* Connect.__subscribe: if res[0].value == 0: with self.lock:
\*     self.__subscriptions[res[1]] = valid_topics
SubscribeRecord(t) ==
    /\ pc[t] = "sub_called"
    /\ subscriptions' =
          IF frame[t].rc = 0
          THEN Put(subscriptions, frame[t].mid, frame[t].valid_topics)
          ELSE subscriptions
    /\ recorded' =
          IF subscriptions' # subscriptions
          THEN Put(recorded, frame[t].mid, subscriptions'[frame[t].mid])
          ELSE recorded
    /\ pc' = [pc EXCEPT ![t] = "sub_recorded"]
    /\ UNCHANGED << callback_vars, link_vars, registry_vars, count, transport_vars, frame, result,
                    at_return, delivery_vars, ack_events, error_events, handler_calls,
                    escaped, removed >>

\* Seeded fault: the transport's message whatever was left out of the batch.
SubscribeMessage_plain(rc, failedTopics) == error_string(rc)

\* The message of the response after the transport call.
SubscribeMessage(rc, failedTopics) ==
    IF rc = 0 /\ Len(failedTopics) > 0
    THEN "Subscription partially sent"
    ELSE error_string(rc)

\* Seeded fault: a response that reports success whatever the transport said.
SubscribeResponse_success(rc, failedTopics) ==
    SubscribeFeedResponse(0, SubscribeMessage(0, failedTopics), failedTopics)

\* res_data.message = ...; res_data.status = res[0].value
SubscribeResponse(rc, failedTopics) ==
    SubscribeFeedResponse(rc, SubscribeMessage(rc, failedTopics), failedTopics)

\* Connect.__subscribe: set message and status, return json.dumps(res_data);
\* at_return notes whether the table held the id at that moment.
SubscribeReturn(t) ==
    /\ pc[t] = "sub_recorded"
    /\ result' = [result EXCEPT ![t] = SubscribeResponse(frame[t].rc, frame[t].failedTopics)]
    /\ at_return' = [at_return EXCEPT ![t] =
                        IF frame[t].mid \in DOMAIN subscriptions
                        THEN "present" ELSE "absent"]
    /\ pc' = [pc EXCEPT ![t] = "done"]
    /\ UNCHANGED << connect_vars, transport_vars, frame, delivery_vars, observer_vars >>

\* -------------------------------------------------------- unsubscribe

UnsubscribeMessage(rc, failedTopics) ==
    IF rc = 0 /\ Len(failedTopics) > 0
    THEN "Unsubscripton partially sent"
    ELSE error_string(rc)

\* Seeded fault: an __unsubscribe without the test of a null request, which
\* json.loads then refuses.
UnsubscribePlan_unchecked(req, topic_prefix) ==
    LET b == build_unsubscribe_options(req.list, topic_prefix)
    IN  CASE req.kind = "null" ->
               [ ret |-> TRUE, errors |-> <<Err(StatusException, "TypeError")>>,
                 built |-> b,
                 response |-> UnsubscribeFeedResponse(StatusException, "TypeError", << >>) ]
          [] req.kind = "badjson" ->
               [ ret |-> TRUE, errors |-> <<Err(StatusException, "Invalid JSON")>>,
                 built |-> b,
                 response |-> UnsubscribeFeedResponse(StatusException, "Invalid JSON", << >>) ]
          [] req.kind = "nokey" ->
               [ ret |-> TRUE, errors |-> <<Err(StatusException, "KeyError")>>,
                 built |-> b,
                 response |-> UnsubscribeFeedResponse(StatusException, "KeyError", << >>) ]
          [] ListRejected(req.list) ->
               [ ret |-> TRUE, errors |-> << >>, built |-> b,
                 response |-> UnsubscribeFeedResponse(
                                StatusTopicCount, "TopicList cannot be null", << >>) ]
          [] b.valid_topics = << >> ->
               [ ret |-> TRUE, errors |-> BuilderErrors(b), built |-> b,
                 response |-> UnsubscribeFeedResponse(
                                StatusNothingValid, "Unsubscription failed", b.failedTopics) ]
          [] OTHER ->
               [ ret |-> FALSE, errors |-> BuilderErrors(b), built |-> b,
                 response |-> NoResult ]

\* Connect.__unsubscribe up to the transport call.
UnsubscribePlan(req, topic_prefix) ==
    LET b == build_unsubscribe_options(req.list, topic_prefix)
    IN  CASE req.kind = "null" ->
               [ ret |-> TRUE, errors |-> << >>, built |-> b,
                 response |-> UnsubscribeFeedResponse(
                                StatusNullRequest, "Request cannot be null", << >>) ]
          [] req.kind = "badjson" ->
               [ ret |-> TRUE, errors |-> <<Err(StatusException, "Invalid JSON")>>,
                 built |-> b,
                 response |-> UnsubscribeFeedResponse(StatusException, "Invalid JSON", << >>) ]
          [] req.kind = "nokey" ->
               [ ret |-> TRUE, errors |-> <<Err(StatusException, "KeyError")>>,
                 built |-> b,
                 response |-> UnsubscribeFeedResponse(StatusException, "KeyError", << >>) ]
          [] ListRejected(req.list) ->
               [ ret |-> TRUE, errors |-> << >>, built |-> b,
                 response |-> UnsubscribeFeedResponse(
                                StatusTopicCount, "TopicList cannot be null", << >>) ]
          [] b.valid_topics = << >> ->
               [ ret |-> TRUE, errors |-> BuilderErrors(b), built |-> b,
                 response |-> UnsubscribeFeedResponse(
                                StatusNothingValid, "Unsubscription failed", b.failedTopics) ]
          [] OTHER ->
               [ ret |-> FALSE, errors |-> BuilderErrors(b), built |-> b,
                 response |-> NoResult ]

\* The transport's unsubscribe(topics).
TransportUnsubscribe(t, topics, rc) ==
    LET mid == IF rc = 0 THEN last_mid + 1 ELSE 0
    IN  /\ last_mid' = IF rc = 0 THEN mid ELSE last_mid
        /\ unsub_calls' =
              Append(unsub_calls, [rc |-> rc, mid |-> mid, topics |-> topics, by |-> t])
        /\ UNCHANGED << sub_calls, suback_due, suback_log >>

\* The response of __unsubscribe after the transport call.
UnsubscribeResponse(rc, failedTopics) ==
    UnsubscribeFeedResponse(rc, UnsubscribeMessage(rc, failedTopics), failedTopics)

\* Connect.__unsubscribe: the whole operation (it writes no shared table).
Unsubscribe(t, topic_prefix, req) ==
    LET plan == UnsubscribePlan(req, topic_prefix)
    IN  /\ pc[t] = "idle"
        /\ error_events' = Report(error_events, plan.errors)
        /\ pc' = [pc EXCEPT ![t] = "done"]
        /\ IF plan.ret
           THEN /\ result' = [result EXCEPT ![t] = plan.response]
                /\ frame' = [frame EXCEPT ![t] =
                                [NoFrame EXCEPT !.op = "unsubscribe", !.req = req,
                                                !.topic_prefix = topic_prefix]]
                /\ UNCHANGED transport_vars
           ELSE \E rc \in TransportStatuses :
                /\ TransportUnsubscribe(t, plan.built.valid_topics, rc)
                /\ result' = [result EXCEPT ![t] =
                                 UnsubscribeResponse(rc, plan.built.failedTopics)]
                /\ frame' = [frame EXCEPT ![t] =
                                [ topic_prefix |-> topic_prefix,
                                  valid_topics |-> plan.built.valid_topics,
                                  failedTopics |-> plan.built.failedTopics,
                                  rc |-> rc,
                                  op |-> "unsubscribe",
                                  req |-> req,
                                  mid |-> 0 ]]
        /\ UNCHANGED << connect_vars, delivery_vars, at_return, ack_events, handler_calls,
                        escaped, table_history >>

\* ------------------------------------------------- subscribe acknowledgment

\* First index at or after i where "v1/" starts in s, or 0.
RECURSIVE FindV1(_, _)
FindV1(s, i) ==
    IF i + 2 > Len(s) THEN 0
    ELSE IF SubSeq(s, i, i + 2) = V1 THEN i
    ELSE FindV1(s, i + 1)

\* re.split(r'v1/', s): the pieces of s between the occurrences of "v1/".
RECURSIVE re_split(_)
re_split(s) ==
    LET i == FindV1(s, 1)
    IN  IF i = 0 THEN <<s>>
        ELSE <<SubSeq(s, 1, i - 1)>> \o re_split(SubSeq(s, i + 3, Len(s)))

\* self.__subscriptions.get(mid, ("Unknown", 0)): the entry of mid, or the
\* default, a pair of the string "Unknown" and the number 0.
Known(table, mid) == mid \in DOMAIN table

Unknown == <<"U", "n", "k", "n", "o", "w", "n">>

EntryLen(table, mid) == IF Known(table, mid) THEN Len(table[mid]) ELSE 2

Min(a, b) == IF a < b THEN a ELSE b

\* zip(reason_code_list, entry) pairs the first min(len, len) elements.
ZipLen(reason_code_list, table, mid) == Min(Len(reason_code_list), EntryLen(table, mid))

\* topic[0] of the i-th zipped element: the name of a (name, qos) tuple of a
\* recorded entry; of the default, the first character of "Unknown" (i = 1).
TopicName(table, mid, i) ==
    IF Known(table, mid) THEN table[mid][i][1] ELSE <<Unknown[1]>>

\* topic[0] itself raises TypeError on the number 0 of the default (i = 2);
\* re.split(r'v1/', topic[0])[1] raises IndexError when there is one piece only.
ElementRaises(table, mid, i) ==
    IF ~Known(table, mid) /\ i = 2 THEN TRUE
    ELSE Len(re_split(TopicName(table, mid, i))) < 2

SuffixOf(name) == re_split(name)[2]

\* The body of the for loop of __on_subscribe for one (reason_code, topic).
AckResult(reason_code, name) ==
    IF reason_code = 0
    THEN SubscribeResult(reason_code, "Granted", SuffixOf(name))
    ELSE SubscribeResult(reason_code, "Not Granted", SuffixOf(name))

\* Whether the for loop raises on one of the zipped elements.
LoopRaises(reason_code_list, table, mid) ==
    \E i \in 1..ZipLen(reason_code_list, table, mid) : ElementRaises(table, mid, i)

LoopResults(reason_code_list, table, mid) ==
    [i \in 1..ZipLen(reason_code_list, table, mid) |->
        AckResult(reason_code_list[i], TopicName(table, mid, i))]

\* ds.SubscribeAckResponse(packetType, "SUBACK", ls); for_mid is not part of
\* the payload: it records which callback invocation produced the event.
SubscribeAckResponse(ls, mid) ==
    [packetName |-> "SUBACK", subscriptionResult |-> ls, for_mid |-> mid]

\* The subscribe() calls the transport accepted with message id mid.
CallsOf(mid) == { i \in DOMAIN sub_calls : sub_calls[i].rc = 0 /\ sub_calls[i].mid = mid }

\* Where the caller that obtained mid stands (None: no caller obtained it).
CallerPc(mid) ==
    IF CallsOf(mid) = {} THEN None
    ELSE pc[sub_calls[CHOOSE i \in CallsOf(mid) : TRUE].by]

\* The transport hands a SUBACK to Connect.__on_subscribe; the log notes where
\* the caller that obtained the mid stood at that moment, and the entry the
\* handler's lookup finds (<< >>: none).
TransportDeliversSubAck(mid, reason_code_list) ==
    /\ suback_due' = suback_due \ {mid}
    /\ suback_log' =
          Append(suback_log,
                 [ mid |-> mid, reason_code_list |-> reason_code_list,
                   caller_pc |-> CallerPc(mid),
                   pending |-> IF Known(subscriptions, mid)
                               THEN subscriptions[mid] ELSE << >> ])
    /\ UNCHANGED << last_mid, sub_calls, unsub_calls >>

\* Connect.__on_subscribe, the for loop: reads the entry without the lock and
\* builds ls; an exception ends the callback in the except clause.
OnSubscribeRead(d, mid, reason_code_list) ==
    LET table == subscriptions
        exc == IF LoopRaises(reason_code_list, table, mid) THEN "IndexError" ELSE None
    IN  /\ hpc[d] = "idle"
        /\ loop_thread = "running" /\ "on_subscribe" \in bindings
        /\ TransportDeliversSubAck(mid, reason_code_list)
        /\ error_events' = ErrorsAfter(exc)
        /\ escaped' = EscapedAfter("__on_subscribe", exc)
        /\ IF exc # None
           THEN UNCHANGED << hpc, hframe >>
           ELSE /\ hpc' = [hpc EXCEPT ![d] = "suback_loop_done"]
                /\ hframe' = [hframe EXCEPT ![d] =
                                 [ NoHFrame EXCEPT
                                     !.mid = mid,
                                     !.reason_code_list = reason_code_list,
                                     !.ls = LoopResults(reason_code_list, table, mid) ]]
        /\ UNCHANGED << connect_vars, caller_vars, ack_events, handler_calls,
                        table_history >>

\* Connect.__on_subscribe, after the loop: with self.lock: del the entry
\* (KeyError if absent), build the response (IndexError on reason_code_list[0]
\* if the list is empty), hand it to the acknowledgment callback.
OnSubscribeDelete(d) ==
    LET mid == hframe[d].mid
        present == mid \in DOMAIN subscriptions
        exc == IF ~present THEN "KeyError"
               ELSE IF hframe[d].reason_code_list = << >> THEN "IndexError"
               ELSE None
    IN  /\ hpc[d] = "suback_loop_done"
        /\ subscriptions' = IF present THEN Del(subscriptions, mid) ELSE subscriptions
        /\ removed' = IF subscriptions' # subscriptions THEN Append(removed, mid) ELSE removed
        /\ error_events' = ErrorsAfter(exc)
        /\ escaped' = EscapedAfter("__on_subscribe", exc)
        /\ ack_events' =
              IF exc = None /\ on_acknowledge_response # None
              THEN Append(ack_events, SubscribeAckResponse(hframe[d].ls, mid))
              ELSE ack_events
        /\ hpc' = [hpc EXCEPT ![d] = "idle"]
        /\ hframe' = [hframe EXCEPT ![d] = NoHFrame]
        /\ UNCHANGED << callback_vars, link_vars, registry_vars, count, transport_vars, caller_vars,
                        handler_calls, recorded >>

\* ------------------------------------------------- registration, dispatch

\* Connect.__set_callback, as called by the setter of property p: under the
\* callback mutex, setattr(self, attr_name, func) and the registry write.
set_callback(p, func) ==
    /\ set_attrs' = Put(set_attrs, p, func)
    /\ topic_handler' = Put(topic_handler, SetterTopic(p), func)
    /\ UNCHANGED << subscriptions, callback_vars, link_vars, private_attrs, count, transport_vars,
                    caller_vars, delivery_vars, observer_vars >>

\* The getter of property p: return self.__on_..._received, the attribute
\* _Connect__on_..._received that __initialize_callbacks set.
property_get(p) == private_attrs[p]

\* split_topic[0] + "v1/"
LookupKey(split_topic) == split_topic[1] \o V1

\* Connect.__on_message up to the test of the if: split the topic, count the
\* message, look the handler up.
OnMessageLookup(d, topic, payload) ==
    LET split_topic == re_split(topic)
    IN  /\ hpc[d] = "idle"
        /\ loop_thread = "running" /\ "on_message" \in bindings
        /\ count' = count + 1
        /\ IF Get(topic_handler, LookupKey(split_topic)) # None
           THEN /\ hpc' = [hpc EXCEPT ![d] = "message_found"]
                /\ hframe' = [hframe EXCEPT ![d] =
                                 [ NoHFrame EXCEPT
                                     !.topic = topic,
                                     !.split_topic = split_topic,
                                     !.payload = payload ]]
           ELSE UNCHANGED << hpc, hframe >>
        /\ UNCHANGED << subscriptions, callback_vars, link_vars, registry_vars, transport_vars,
                        caller_vars, observer_vars >>

\* The properties through which handler is registered at this moment.
RegisteredVia(handler) == { p \in DOMAIN set_attrs : set_attrs[p] = handler }

\* Seeded fault: a dispatcher that hands the message to the handler twice.
OnMessageInvoke_twice(d) ==
    LET split_topic == hframe[d].split_topic
        handler == Get(topic_handler, LookupKey(split_topic))
        exc == IF handler = None THEN "TypeError"
               ELSE IF Len(split_topic) < 2 THEN "IndexError"
               ELSE None
    IN  /\ hpc[d] = "message_found"
        /\ handler_calls' =
              IF exc # None THEN handler_calls
              ELSE handler_calls \o
                      [ i \in 1..2 |->
                          [ topic |-> hframe[d].topic, payload |-> hframe[d].payload,
                            handler |-> handler, suffix |-> split_topic[2],
                            via |-> RegisteredVia(handler),
                            prefix |-> LookupKey(split_topic) ] ]
        /\ error_events' = ErrorsAfter(exc)
        /\ escaped' = EscapedAfter("__on_message", exc)
        /\ hpc' = [hpc EXCEPT ![d] = "idle"]
        /\ hframe' = [hframe EXCEPT ![d] = NoHFrame]
        /\ UNCHANGED << connect_vars, transport_vars, caller_vars, ack_events,
                        table_history >>

\* Connect.__on_message, the body of the if: look the handler up again and call
\* it with (payload, split_topic[1]); calling None raises TypeError, and
\* split_topic[1] of a topic without "v1/" IndexError, into the except clause.
\* The log notes the inbound topic, how the handler came to be registered and
\* the key it was looked up under.
OnMessageInvoke(d) ==
    LET split_topic == hframe[d].split_topic
        handler == Get(topic_handler, LookupKey(split_topic))
        exc == IF handler = None THEN "TypeError"
               ELSE IF Len(split_topic) < 2 THEN "IndexError"
               ELSE None
    IN  /\ hpc[d] = "message_found"
        /\ handler_calls' =
              IF exc # None THEN handler_calls
              ELSE Append(handler_calls,
                          [ topic |-> hframe[d].topic, payload |-> hframe[d].payload,
                            handler |-> handler, suffix |-> split_topic[2],
                            via |-> RegisteredVia(handler),
                            prefix |-> LookupKey(split_topic) ])
        /\ error_events' = ErrorsAfter(exc)
        /\ escaped' = EscapedAfter("__on_message", exc)
        /\ hpc' = [hpc EXCEPT ![d] = "idle"]
        /\ hframe' = [hframe EXCEPT ![d] = NoHFrame]
        /\ UNCHANGED << connect_vars, transport_vars, caller_vars, ack_events,
                        table_history >>


\* Seeded fault: a dispatcher without the try: the handler's exception goes
\* up into the loop thread, which ends.
OnMessageInvokeRaises_uncaught(d, exc) ==
    LET split_topic == hframe[d].split_topic
        handler == Get(topic_handler, LookupKey(split_topic))
    IN  /\ hpc[d] = "message_found"
        /\ handler # None /\ Len(split_topic) >= 2
        /\ handler_calls' =
              Append(handler_calls,
                     [ topic |-> hframe[d].topic, raised |-> exc,
                       payload |-> hframe[d].payload,
                       handler |-> handler, suffix |-> split_topic[2],
                       via |-> RegisteredVia(handler),
                       prefix |-> LookupKey(split_topic) ])
        /\ escaped' = Append(escaped, [exc |-> exc, where |-> "__on_message"])
        /\ loop_thread' = "none"
        /\ hpc' = [hpc EXCEPT ![d] = "idle"]
        /\ hframe' = [hframe EXCEPT ![d] = NoHFrame]
        /\ UNCHANGED << subscriptions, callback_vars, registry_vars, count, transport_vars,
                        caller_vars, ack_events, error_events, table_history, state,
                        bindings, link_calls, link_events, returns >>

\* Connect.__on_message, the body of the if, when the handler called raises
\* exc: the handler has received the message, and the exception goes into the
\* except clause of __on_message.
OnMessageInvokeRaises(d, exc) ==
    LET split_topic == hframe[d].split_topic
        handler == Get(topic_handler, LookupKey(split_topic))
    IN  /\ hpc[d] = "message_found"
        /\ handler # None /\ Len(split_topic) >= 2
        /\ handler_calls' =
              Append(handler_calls,
                     [ topic |-> hframe[d].topic, raised |-> exc,
                       payload |-> hframe[d].payload,
                       handler |-> handler, suffix |-> split_topic[2],
                       via |-> RegisteredVia(handler),
                       prefix |-> LookupKey(split_topic) ])
        /\ error_events' = ErrorsAfter(exc)
        /\ escaped' = EscapedAfter("__on_message", exc)
        /\ hpc' = [hpc EXCEPT ![d] = "idle"]
        /\ hframe' = [hframe EXCEPT ![d] = NoHFrame]
        /\ UNCHANGED << connect_vars, transport_vars, caller_vars, ack_events,
                        table_history >>

\* ------------------------------------------------------ connect, disconnect

\* A request string given to connect_host: None or "" ("null"), text that is
\* not JSON ("badjson"), JSON that is not an object ("notdict"), an object
\* without "token" ("notoken"), with the token but without "host" or "port"
\* ("nohost"), or with all three ("ok").
ConnectKinds == { "null", "badjson", "notdict", "notoken", "nohost", "ok" }

\* What __validate_Token returns as valRes[0]: "Success", the identity service's
\* refusal, or False after an exception of the HTTP call (reported to on_error).
TokenVerdicts == { "Success", "Failure", "Exception" }

\* A connect request with what the identity service makes of its token.
ConnectRequest(kind, verdict) == [list |-> << >>, kind |-> kind, verdict |-> verdict]

ConnectRequests ==
    { ConnectRequest(kind, "Success") : kind \in ConnectKinds }
      \cup { ConnectRequest("ok", verdict) : verdict \in TokenVerdicts }

\* What a call of the transport comes to: a status returned or an exception.
Returns(rc) == [exc |-> None, rc |-> rc]
Raises(exc) == [exc |-> exc, rc |-> 0]

\* An entry of the log of transport calls.
LinkCall(call, outcome) == [call |-> call, outcome |-> outcome]

\* paho's connect(): the status of the CONNECT packet (MQTT_ERR_SUCCESS or
\* MQTT_ERR_NO_CONN), ValueError for an invalid host, port or keepalive, or the
\* OSError of the socket: gaierror, ConnectionRefusedError, timeout.
ConnectOutcomes ==
    { Returns(rc) : rc \in TransportStatuses }
      \cup { Raises(exc) : exc \in {"ValueError", "gaierror", "ConnectionRefusedError", "timeout"} }

\* Whether the exception object has an attribute errno (OSError and its
\* subclasses have), and its value where it has; 0 stands for None.
HasErrno(exc) == exc \in {"OSError", "gaierror", "ConnectionRefusedError", "timeout"}

Errno(exc) ==
    CASE exc = "gaierror" -> HostNotFound
      [] exc = "ConnectionRefusedError" -> 111
      [] OTHER -> 0

\* paho's disconnect(): MQTT_ERR_NO_CONN without a socket, else the status of
\* the DISCONNECT packet; or an exception.
HasSocket == state \in {"connecting", "connected", "disconnecting"}

DisconnectOutcomes == { Returns(IF HasSocket THEN 0 ELSE 4), Raises("OSError") }

\* ds.ConnectionResponse(status, message), ds.DisconnectResponse(status, message)
ConnectionResponse(status, message) == [status |-> status, message |-> message]

DisconnectResponse(status, message) == [status |-> status, message |-> message]

\* ds.CommonResponse(rc.value, rc.packetType, packetName, str(rc))
CommonResponse(status, packetName) == [status |-> status, packetName |-> packetName]

\* The except clauses of connect_host for exc: the reports to the error
\* callback, the response returned, and the exception that leaves the
\* operation instead (None: none). "except Exception" reads ex.errno, which
\* an exception without that attribute answers with AttributeError, and calls
\* self.__on_error unguarded for errno 11001.
ConnectExcept(exc) ==
    CASE exc \in {"JSONDecodeError", "KeyError"} ->
           [ errors |-> <<Err(StatusException, exc)>>,
             response |-> ConnectionResponse(StatusException, exc),
             escapes |-> None ]
      [] ~HasErrno(exc) ->
           [ errors |-> << >>, response |-> NoResult, escapes |-> "AttributeError" ]
      [] HasErrno(exc) /\ Errno(exc) = HostNotFound /\ on_error = None ->
           [ errors |-> << >>, response |-> NoResult, escapes |-> "TypeError" ]
      [] HasErrno(exc) /\ Errno(exc) = HostNotFound /\ on_error # None ->
           [ errors |-> <<Err(HostNotFound, "Invalid host name")>>,
             response |-> ConnectionResponse(HostNotFound, "Invalid host name"),
             escapes |-> None ]
      [] OTHER ->
           [ errors |-> <<Err(StatusException, exc)>>,
             response |-> ConnectionResponse(StatusException, exc),
             escapes |-> None ]

\* Seeded fault: a connect_host that reaches the transport's connect() without
\* having installed the callbacks.
ConnectPlan_unbound(kind, verdict, outcome) ==
    CASE kind = "null" -> [exc |-> None, ends |-> "null", bound |-> FALSE]
      [] kind = "badjson" -> [exc |-> "JSONDecodeError", ends |-> "raised", bound |-> FALSE]
      [] kind = "notdict" -> [exc |-> "TypeError", ends |-> "raised", bound |-> FALSE]
      [] kind = "notoken" -> [exc |-> "KeyError", ends |-> "raised", bound |-> FALSE]
      [] verdict # "Success" -> [exc |-> None, ends |-> "rejected", bound |-> FALSE]
      [] state = "connected" -> [exc |-> None, ends |-> "already", bound |-> FALSE]
      [] kind = "nohost" -> [exc |-> "KeyError", ends |-> "raised", bound |-> FALSE]
      [] outcome.exc # None -> [exc |-> outcome.exc, ends |-> "raised", bound |-> FALSE]
      [] OTHER -> [exc |-> None, ends |-> "called", bound |-> FALSE]

\* Seeded fault: a connect_host without the test of is_host_connected.
ConnectPlan_unguarded(kind, verdict, outcome) ==
    CASE kind = "null" -> [exc |-> None, ends |-> "null", bound |-> FALSE]
      [] kind = "badjson" -> [exc |-> "JSONDecodeError", ends |-> "raised", bound |-> FALSE]
      [] kind = "notdict" -> [exc |-> "TypeError", ends |-> "raised", bound |-> FALSE]
      [] kind = "notoken" -> [exc |-> "KeyError", ends |-> "raised", bound |-> FALSE]
      [] verdict # "Success" -> [exc |-> None, ends |-> "rejected", bound |-> FALSE]
      [] kind = "nohost" -> [exc |-> "KeyError", ends |-> "raised", bound |-> TRUE]
      [] outcome.exc # None -> [exc |-> outcome.exc, ends |-> "raised", bound |-> TRUE]
      [] OTHER -> [exc |-> None, ends |-> "called", bound |-> TRUE]

\* The path connect_host takes for a request, a verdict on its token and an
\* outcome of the transport's connect(): where it ends ("null", "raised",
\* "rejected", "already", "called") and with which exception.
ConnectPlan(kind, verdict, outcome) ==
    CASE kind = "null" -> [exc |-> None, ends |-> "null", bound |-> FALSE]
      [] kind = "badjson" -> [exc |-> "JSONDecodeError", ends |-> "raised", bound |-> FALSE]
      [] kind = "notdict" -> [exc |-> "TypeError", ends |-> "raised", bound |-> FALSE]
      [] kind = "notoken" -> [exc |-> "KeyError", ends |-> "raised", bound |-> FALSE]
      [] verdict # "Success" -> [exc |-> None, ends |-> "rejected", bound |-> FALSE]
      [] state = "connected" -> [exc |-> None, ends |-> "already", bound |-> TRUE]
      [] kind = "nohost" -> [exc |-> "KeyError", ends |-> "raised", bound |-> TRUE]
      [] outcome.exc # None -> [exc |-> outcome.exc, ends |-> "raised", bound |-> TRUE]
      [] OTHER -> [exc |-> None, ends |-> "called", bound |-> TRUE]

\* The transport's connect() is called: logged; a status returned leaves the
\* socket open and the CONNECT sent, an OSError leaves no socket, a ValueError
\* leaves the client as it was.
TransportConnect(plan, outcome) ==
    IF plan.ends = "called" \/ (plan.ends = "raised" /\ plan.exc = outcome.exc)
    THEN /\ link_calls' = Append(link_calls, LinkCall("connect", outcome))
         /\ state' = IF outcome.exc = None THEN "connecting"
                     ELSE IF HasErrno(outcome.exc) THEN "disconnected"
                     ELSE state
    ELSE UNCHANGED << state, link_calls >>

\* Seeded fault: a rejected token reported with the status of an exception.
ConnectEarlyResponse_generic(plan, verdict) ==
    CASE plan.ends = "null" -> ConnectionResponse(StatusNullRequest, "Request cannot be null")
      [] plan.ends = "rejected" -> ConnectionResponse(StatusException, verdict)
      [] plan.ends = "already" ->
           ConnectionResponse(StatusAlreadyConnected, "Client is already connected")
      [] OTHER -> ConnectExcept(plan.exc).response

\* What connect_host returns where it returns before the transport call.
ConnectEarlyResponse(plan, verdict) ==
    CASE plan.ends = "null" -> ConnectionResponse(StatusNullRequest, "Request cannot be null")
      [] plan.ends = "rejected" -> ConnectionResponse(StatusTokenRejected, verdict)
      [] plan.ends = "already" ->
           ConnectionResponse(StatusAlreadyConnected, "Client is already connected")
      [] OTHER -> ConnectExcept(plan.exc).response

\* What the error callback receives on that path.
ConnectErrors(plan, verdict) ==
    CASE plan.ends = "raised" -> ConnectExcept(plan.exc).errors
      [] plan.ends = "rejected" /\ verdict = "Exception" -> <<Err(StatusException, verdict)>>
      [] OTHER -> << >>

\* Connect.connect_host from entry to the return of self.__mqttClient.connect
\* (or to the return statement, or the exception, that ends it before).
ConnectCall(t, req, outcome) ==
    LET kind == req.kind
        verdict == req.verdict
        plan == ConnectPlan(kind, verdict, outcome)
        escapes == IF plan.ends = "raised" THEN ConnectExcept(plan.exc).escapes ELSE None
    IN  /\ pc[t] = "idle"
        /\ bindings' = IF plan.bound THEN TransportCallbacks ELSE bindings
        /\ TransportConnect(plan, outcome)
        /\ error_events' = Report(error_events, ConnectErrors(plan, verdict))
        /\ escaped' = IF escapes # None
                      THEN Append(escaped, [exc |-> escapes, where |-> "connect_host"])
                      ELSE escaped
        /\ frame' = [frame EXCEPT ![t] =
                        [NoFrame EXCEPT !.op = "connect", !.req = req,
                                        !.rc = outcome.rc]]
        /\ pc' = [pc EXCEPT ![t] =
                     IF plan.ends = "called" THEN "conn_called"
                     ELSE IF escapes # None THEN "raised" ELSE "done"]
        /\ result' = [result EXCEPT ![t] =
                         IF plan.ends = "called" THEN NoResult
                         ELSE ConnectEarlyResponse(plan, verdict)]
        /\ UNCHANGED << subscriptions, callback_vars, registry_vars, count, transport_vars,
                        at_return, delivery_vars, ack_events, handler_calls, table_history,
                        loop_thread, link_events, returns >>

\* paho's loop_start(): MQTT_ERR_INVAL (3) if a loop thread exists, else the
\* thread is started.
LoopStart ==
    /\ loop_thread' = "running"
    /\ link_calls' =
          Append(link_calls,
                 LinkCall("loop_start", Returns(IF loop_thread = "none" THEN 0 ELSE 3)))

\* Connect.connect_host after the transport call: the loop is started if the
\* status is 0, and the status is returned.
ConnectReturn(t) ==
    /\ pc[t] = "conn_called"
    /\ IF frame[t].rc = 0 THEN LoopStart ELSE UNCHANGED << loop_thread, link_calls >>
    /\ result' = [result EXCEPT ![t] =
                     ConnectionResponse(frame[t].rc, error_string(frame[t].rc))]
    /\ pc' = [pc EXCEPT ![t] = "done"]
    /\ UNCHANGED << subscriptions, callback_vars, registry_vars, count, transport_vars,
                    frame, at_return, delivery_vars, observer_vars, state, bindings,
                    link_events, returns >>

\* Connect.disconnect_host up to the return of self.__mqttClient.disconnect():
\* an exception goes to the except clause, which returns -1 at once.
DisconnectCall(t, outcome) ==
    /\ pc[t] = "idle"
    /\ link_calls' = Append(link_calls, LinkCall("disconnect", outcome))
    /\ frame' = [frame EXCEPT ![t] = [NoFrame EXCEPT !.op = "disconnect", !.rc = outcome.rc]]
    /\ IF outcome.exc # None
       THEN /\ error_events' = ErrorsAfter(outcome.exc)
            /\ escaped' = EscapedAfter("disconnect_host", outcome.exc)
            /\ result' = [result EXCEPT ![t] =
                             DisconnectResponse(StatusException, outcome.exc)]
            /\ pc' = [pc EXCEPT ![t] = "done"]
            /\ UNCHANGED state
       ELSE /\ state' = IF HasSocket THEN "disconnecting" ELSE "disconnected"
            /\ pc' = [pc EXCEPT ![t] = "disc_called"]
            /\ UNCHANGED << error_events, escaped, result >>
    /\ UNCHANGED << subscriptions, callback_vars, registry_vars, count, transport_vars,
                    at_return, delivery_vars, ack_events, handler_calls, table_history,
                    loop_thread, bindings, link_events, returns >>

\* Seeded fault: a join of the loop thread that never comes back.
LoopStop_stuck ==
    /\ loop_thread = "none"
    /\ link_calls' = Append(link_calls, LinkCall("loop_stop", Returns(3)))
    /\ UNCHANGED loop_thread

\* paho's loop_stop(): MQTT_ERR_INVAL (3) without a loop thread; else the
\* thread is told to end and joined, which waits for the callback it runs.
LoopStop ==
    /\ loop_thread = "running" => \A d \in DeliveryThreads : hpc[d] = "idle"
    /\ loop_thread' = "none"
    /\ link_calls' =
          Append(link_calls,
                 LinkCall("loop_stop", Returns(IF loop_thread = "none" THEN 3 ELSE 0)))

\* Seeded fault: a disconnect_host that cancels the pending entries.
DisconnectStop_clearing(t) ==
    /\ pc[t] = "disc_called"
    /\ LoopStop
    /\ subscriptions' = << >>
    /\ result' = [result EXCEPT ![t] =
                     DisconnectResponse(frame[t].rc, error_string(frame[t].rc))]
    /\ pc' = [pc EXCEPT ![t] = "done"]
    /\ UNCHANGED << callback_vars, registry_vars, count, transport_vars,
                    frame, at_return, delivery_vars, observer_vars, state, bindings,
                    link_events, returns >>

\* Connect.disconnect_host after the transport call: the loop is stopped and
\* the status of the transport call returned.
DisconnectStop(t) ==
    /\ pc[t] = "disc_called"
    /\ LoopStop
    /\ result' = [result EXCEPT ![t] =
                     DisconnectResponse(frame[t].rc, error_string(frame[t].rc))]
    /\ pc' = [pc EXCEPT ![t] = "done"]
    /\ UNCHANGED << subscriptions, callback_vars, registry_vars, count, transport_vars,
                    frame, at_return, delivery_vars, observer_vars, state, bindings,
                    link_events, returns >>

\* The body of __on_connect and of __on_disconnect: the response is built and
\* handed to the acknowledgment callback if one is registered.
LinkCallback(name, packetName) ==
    /\ link_events' = Append(link_events, name)
    /\ ack_events' = IF on_acknowledge_response # None
                     THEN Append(ack_events, CommonResponse(0, packetName))
                     ELSE ack_events

\* The loop thread reads the CONNACK: the client is connected, and
\* Connect.__on_connect runs.
OnConnect(d) ==
    /\ hpc[d] = "idle"
    /\ loop_thread = "running" /\ "on_connect" \in bindings
    /\ state = "connecting"
    /\ state' = "connected"
    /\ LinkCallback("on_connect", "CONNACK")
    /\ UNCHANGED << subscriptions, callback_vars, registry_vars, count, transport_vars,
                    caller_vars, delivery_vars, error_events, handler_calls, escaped,
                    table_history, loop_thread, bindings, link_calls, returns >>

\* The loop thread finds the connection closed (the DISCONNECT went out, or
\* the link was lost): the socket is closed and Connect.__on_disconnect runs.
OnDisconnect(d) ==
    /\ hpc[d] = "idle"
    /\ loop_thread = "running" /\ "on_disconnect" \in bindings
    /\ HasSocket
    /\ state' = "disconnected"
    /\ LinkCallback("on_disconnect", "DISCONNECT")
    /\ UNCHANGED << subscriptions, callback_vars, registry_vars, count, transport_vars,
                    caller_vars, delivery_vars, error_events, handler_calls, escaped,
                    table_history, loop_thread, bindings, link_calls, returns >>

\* The application goes on to its next call: the operation just ended is
\* noted, with how it ended.
NextCall(t) ==
    /\ pc[t] \in {"done", "raised"}
    /\ returns' = Append(returns, [op |-> frame[t].op, by |-> t, ended |-> pc[t]])
    /\ pc' = [pc EXCEPT ![t] = "idle"]
    /\ UNCHANGED << subscriptions, callback_vars, registry_vars, count, transport_vars,
                    frame, result, at_return, delivery_vars, observer_vars, state,
                    loop_thread, bindings, link_calls, link_events >>

\* ---------------------------------------------------- unsubscribe-ack

\* ds.UnsubscribeAckResponse(properties.packetType, "UNSUBACK", 0,
\* "Unsubscribed Successfully")
UnsubscribeAckResponse(status, packetName, message) ==
    [status |-> status, message |-> message, packetName |-> packetName]

\* Seeded fault: an unsubscribe-ack handler that reports the first reason code
\* as the status.
OnUnsubscribe_coded(d, mid, reason_code_list) ==
    /\ hpc[d] = "idle"
    /\ loop_thread = "running" /\ "on_unsubscribe" \in bindings
    /\ link_events' = Append(link_events, "on_unsubscribe")
    /\ ack_events' =
          IF on_acknowledge_response # None
          THEN Append(ack_events,
                      UnsubscribeAckResponse(
                         IF reason_code_list = << >> THEN 0 ELSE reason_code_list[1],
                         "UNSUBACK", "Unsubscribed Successfully"))
          ELSE ack_events
    /\ UNCHANGED << subscriptions, callback_vars, registry_vars, count, transport_vars,
                    caller_vars, delivery_vars, error_events, handler_calls, escaped,
                    table_history, state, loop_thread, bindings, link_calls, returns >>

\* The loop thread reads an UNSUBACK with message id mid and reason codes
\* reason_code_list, and Connect.__on_unsubscribe runs: it uses neither and
\* hands the fixed response to the acknowledgment callback.
OnUnsubscribe(d, mid, reason_code_list) ==
    /\ hpc[d] = "idle"
    /\ loop_thread = "running" /\ "on_unsubscribe" \in bindings
    /\ link_events' = Append(link_events, "on_unsubscribe")
    /\ ack_events' =
          IF on_acknowledge_response # None
          THEN Append(ack_events,
                      UnsubscribeAckResponse(0, "UNSUBACK", "Unsubscribed Successfully"))
          ELSE ack_events
    /\ UNCHANGED << subscriptions, callback_vars, registry_vars, count, transport_vars,
                    caller_vars, delivery_vars, error_events, handler_calls, escaped,
                    table_history, state, loop_thread, bindings, link_calls, returns >>

\* ------------------------------------------------------- construction

\* cls._instance, the object the first Connect() created.
instance == "connect#1"

\* Seeded fault: an __init__ that does not remember it has run.
initialized_never == FALSE

\* self._initialized, set by the first Connect() and never cleared.
initialized == TRUE

\* Connect.__new__: the instance there is, a new one only when there is none.
new == IF instance = None THEN "connect#2" ELSE instance

\* Connect(), constructed again by the application: __new__ gives the
\* instance, and __init__ initializes it only if it is not initialized yet (a
\* new transport client, no callbacks, empty registry and pending table).
Construct(t) ==
    /\ pc[t] = "idle"
    /\ pc' = [pc EXCEPT ![t] = "done"]
    /\ frame' = [frame EXCEPT ![t] = [NoFrame EXCEPT !.op = "construct"]]
    /\ result' = [result EXCEPT ![t] = [instance |-> new]]
    /\ IF initialized
       THEN UNCHANGED << subscriptions, callback_vars, topic_handler, private_attrs, count,
                         state, loop_thread, bindings >>
       ELSE /\ subscriptions' = << >>
            /\ topic_handler' = << >>
            /\ on_acknowledge_response' = None
            /\ on_error' = None
            /\ private_attrs' = [p \in Properties |-> None]
            /\ count' = 0
            /\ state' = "new"
            /\ loop_thread' = "none"
            /\ bindings' = {}
    /\ UNCHANGED << set_attrs, transport_vars, at_return, delivery_vars, observer_vars,
                    link_calls, link_events, returns >>
\* ------------------------------------------------------- specifications

\* Strings of the input pools.
S1 == <<"1">>
Sn2 == <<"n", "/", "2">>
SUpper == <<"A">>
SEmpty == << >>
SNewline == <<"1", "\n">>
SInnerV1 == <<"a", "v", "1", "/", "b">>

\* All lists over pool of length lo..hi.
ListsOver(pool, lo, hi) == UNION { [1..n -> pool] : n \in lo..hi }

\* The SUBACK of a SUBSCRIBE carries one reason code per topic submitted.
SubmittedTopics(mid) == sub_calls[CHOOSE i \in CallsOf(mid) : TRUE].topics

WellFormedCodes(mid) == [1..Len(SubmittedTopics(mid)) -> ReasonCodes]

\* An id the transport never returned to a caller.
StrayMid == 99

\* A SUBACK as the broker may send it: well formed, one reason code short, one
\* too many, or with no reason code at all; for an id no subscribe obtained,
\* one code or none.
AckCodes(mid) ==
    IF CallsOf(mid) = {}
    THEN { << >>, <<0>> }
    ELSE WellFormedCodes(mid)
           \cup { [i \in 1..(Len(SubmittedTopics(mid)) + d) |-> 0] : d \in {-1, 1} }
           \cup { << >> }

SeenMids == { suback_log[i].mid : i \in DOMAIN suback_log }

\* --- Spec: caller threads subscribing, each for a category of its own, while
\* --- the network loop delivers one SUBACK for every accepted SUBSCRIBE.
ConcCategory(t) ==
    CASE t = 1 -> mw_topic
      [] t = 2 -> low_52_week
      [] t = 3 -> order_updates
      [] OTHER -> index_topic

ConcLists == { <<Sn2, S1>>, <<SUpper, S1>> }

Next ==
    \/ \E t \in CallerThreads, l \in ConcLists :
          SubscribeCall(t, ConcCategory(t), Request("list", l))
    \/ \E t \in CallerThreads : SubscribeRecord(t)
    \/ \E t \in CallerThreads : SubscribeReturn(t)
    \/ \E d \in DeliveryThreads, mid \in suback_due :
          \E codes \in WellFormedCodes(mid) : OnSubscribeRead(d, mid, codes)
    \/ \E d \in DeliveryThreads : OnSubscribeDelete(d)

Spec == InitConnected /\ [][Next]_vars

\* --- SpecAck: one caller subscribing while the network loop delivers the
\* --- SUBACK, which the broker may repeat.
OneCaller == {1}

AckPool == { Sn2, SUpper }

NextAck ==
    \/ \E t \in OneCaller, c \in {mw_topic, trade_updates} :
          \E l \in ListsOver(AckPool, 1, MaxListLen) :
             SubscribeCall(t, c, Request("list", l))
    \/ \E t \in OneCaller : SubscribeRecord(t)
    \/ \E t \in OneCaller : SubscribeReturn(t)
    \/ \E d \in DeliveryThreads, mid \in suback_due \cup SeenMids \cup {StrayMid} :
          \E codes \in AckCodes(mid) :
             /\ Len(suback_log) < MaxAcks
             /\ OnSubscribeRead(d, mid, codes)
    \/ \E d \in DeliveryThreads : OnSubscribeDelete(d)

SpecAck == InitConnected /\ [][NextAck]_vars

\* --- SpecRequest: one caller issuing one subscribe or unsubscribe request
\* --- drawn from a pool with every request shape.
RequestPool == { S1, Sn2, SUpper, SEmpty, SNewline, NonString }

LongLists ==
    { [i \in 1..n |-> s] : n \in {TopicLimit, TopicLimit + 1}, s \in {S1, SUpper} }

Requests ==
    { Request(k, << >>) : k \in {"null", "badjson", "nokey", "list"} }
      \cup { Request("list", l) : l \in ListsOver(RequestPool, 1, MaxListLen) \cup LongLists }

NextRequest ==
    \/ \E t \in OneCaller, c \in Categories, req \in Requests : SubscribeCall(t, c, req)
    \/ \E t \in OneCaller : SubscribeRecord(t)
    \/ \E t \in OneCaller : SubscribeReturn(t)
    \/ \E t \in OneCaller, c \in Categories, req \in Requests : Unsubscribe(t, c, req)

SpecRequest == InitConnected /\ [][NextRequest]_vars

\* --- SpecDispatch: the application registers handlers while the network
\* --- loop dispatches inbound messages; a message's payload is its number.
DispatchSuffixes == { S1, SInnerV1 }

NextDispatch ==
    \/ \E p \in Properties, func \in DataHandlers \cup {None} :
          /\ Cardinality(DOMAIN set_attrs \cup {p}) <= MaxRegistered
          /\ set_callback(p, func)
    \/ \E d \in DeliveryThreads, c \in Categories, s \in DispatchSuffixes :
          /\ count < MaxMessages
          /\ OnMessageLookup(d, c \o s, count + 1)
    \/ \E d \in DeliveryThreads : OnMessageInvoke(d)

\* Dispatch involves no acknowledgment callback: none is registered.
InitDispatch == InitConnected /\ on_acknowledge_response = None

SpecDispatch == InitDispatch /\ [][NextDispatch]_vars

\* --- SpecValidate: one caller submitting one suffix, any string over an
\* --- alphabet with a lowercase letter, a digit, the slash, an uppercase
\* --- letter, punctuation, a blank and a newline, to subscribe or unsubscribe.
SuffixAlphabet == { "a", "1", "/", "A", "-", " ", "\n" }

SuffixStrings == UNION { [1..n -> SuffixAlphabet] : n \in 0..MaxSuffixLen }

NextValidate ==
    \/ \E t \in OneCaller, c \in {index_topic, order_updates}, s \in SuffixStrings :
          SubscribeCall(t, c, Request("list", <<s>>))
    \/ \E t \in OneCaller : SubscribeRecord(t)
    \/ \E t \in OneCaller : SubscribeReturn(t)
    \/ \E t \in OneCaller, c \in {index_topic, order_updates}, s \in SuffixStrings :
          Unsubscribe(t, c, Request("list", <<s>>))

SpecValidate == InitConnected /\ [][NextValidate]_vars

\* --- SpecSession: one caller going through connect_host, subscribe,
\* --- unsubscribe and disconnect_host calls, MaxOps of them, with a null or a
\* --- well-formed request each and a transport that returns a status to
\* --- connect, while the network loop runs the callbacks of the session.
\* The list the caller subscribes: one suffix, valid, with the marker "v1/"
\* inside it.
SessionList == << SInnerV1 >>

\* The requests the caller subscribes and unsubscribes with: that list, or the
\* null request.
SessionRequests == { Request("list", SessionList), Request("null", << >>) }

SessionConnects == { ConnectRequest("ok", "Success"), ConnectRequest("null", "Success") }

NextSession ==
    \/ \E t \in OneCaller, req \in SessionConnects, rc \in TransportStatuses :
          ConnectCall(t, req, Returns(rc))
    \/ \E t \in OneCaller : ConnectReturn(t)
    \/ \E t \in OneCaller : \E outcome \in DisconnectOutcomes : DisconnectCall(t, outcome)
    \/ \E t \in OneCaller : DisconnectStop(t)
    \/ \E t \in OneCaller, req \in SessionRequests : SubscribeCall(t, mw_topic, req)
    \/ \E t \in OneCaller : SubscribeRecord(t)
    \/ \E t \in OneCaller : SubscribeReturn(t)
    \/ \E t \in OneCaller, req \in SessionRequests : Unsubscribe(t, mw_topic, req)
    \/ \E t \in OneCaller : Len(returns) + 1 < MaxOps /\ NextCall(t)
    \/ /\ set_attrs = << >>
       /\ set_callback("on_feed_data_received", "h1")
    \/ \E d \in DeliveryThreads : OnConnect(d)
    \/ \E d \in DeliveryThreads : OnDisconnect(d)
    \/ \E d \in DeliveryThreads, mid \in suback_due :
          /\ state = "connected"
          /\ OnSubscribeRead(d, mid, [i \in 1..Len(SessionList) |-> 0])
    \/ \E d \in DeliveryThreads : OnSubscribeDelete(d)

\* The application has registered its acknowledgment callback.
InitSession == Init /\ on_acknowledge_response \in AckCallbacks

SpecSession == InitSession /\ [][NextSession]_vars

\* --- SpecShutdown: one caller connecting, subscribing and disconnecting, the
\* --- transport's disconnect() coming to any of its outcomes. The caller's
\* --- thread and the loop thread are scheduled: a disconnect_host that has made
\* --- the transport call goes on to loop_stop(), and a callback the loop thread
\* --- has begun is run to its end.
NextShutdown ==
    \/ \E t \in OneCaller : ConnectCall(t, ConnectRequest("ok", "Success"), Returns(0))
    \/ \E t \in OneCaller : ConnectReturn(t)
    \/ \E t \in OneCaller : \E outcome \in DisconnectOutcomes : DisconnectCall(t, outcome)
    \/ \E t \in OneCaller : DisconnectStop(t)
    \/ \E t \in OneCaller : SubscribeCall(t, mw_topic, Request("list", SessionList))
    \/ \E t \in OneCaller : SubscribeRecord(t)
    \/ \E t \in OneCaller : SubscribeReturn(t)
    \/ \E t \in OneCaller : Len(returns) + 1 < MaxOps /\ NextCall(t)
    \/ \E d \in DeliveryThreads : OnConnect(d)
    \/ \E d \in DeliveryThreads : OnDisconnect(d)
    \/ \E d \in DeliveryThreads, mid \in suback_due :
          /\ state = "connected"
          /\ OnSubscribeRead(d, mid, [i \in 1..Len(SessionList) |-> 0])
    \/ \E d \in DeliveryThreads : OnSubscribeDelete(d)

FairShutdown ==
    /\ \A t \in OneCaller : WF_vars(DisconnectStop(t))
    /\ \A d \in DeliveryThreads : WF_vars(OnSubscribeDelete(d))

SpecShutdown == InitSession /\ [][NextShutdown]_vars /\ FairShutdown

\* --- SpecConnect: one caller going through connect_host and disconnect_host
\* --- calls, MaxOps of them, with every connect request, verdict on its token
\* --- and outcome of the transport's connect(), while the network loop runs
\* --- the connection callbacks.
NextConnect ==
    \/ \E t \in OneCaller, req \in ConnectRequests :
          \E outcome \in ConnectOutcomes : ConnectCall(t, req, outcome)
    \/ \E t \in OneCaller : ConnectReturn(t)
    \/ \E t \in OneCaller : \E outcome \in DisconnectOutcomes : DisconnectCall(t, outcome)
    \/ \E t \in OneCaller : DisconnectStop(t)
    \/ \E t \in OneCaller : Len(returns) + 1 < MaxOps /\ NextCall(t)
    \/ \E d \in DeliveryThreads : OnConnect(d)
    \/ \E d \in DeliveryThreads : OnDisconnect(d)

SpecConnect == Init /\ [][NextConnect]_vars

\* --- SpecSymmetry: caller 1 issuing one subscribe request and caller 2 one
\* --- unsubscribe request, each with a category and a request of every shape.
SymmetryPool == { S1, SUpper, NonString }

SymmetryCategories == { mw_topic, index_topic }

SymmetryRequests ==
    { Request(k, << >>) : k \in {"null", "badjson", "nokey", "list"} }
      \cup { Request("list", l) : l \in ListsOver(SymmetryPool, 1, MaxListLen) }

NextSymmetry ==
    \/ \E c \in SymmetryCategories, req \in SymmetryRequests : SubscribeCall(1, c, req)
    \/ SubscribeRecord(1)
    \/ SubscribeReturn(1)
    \/ \E c \in SymmetryCategories, req \in SymmetryRequests : Unsubscribe(2, c, req)

SpecSymmetry == InitConnected /\ [][NextSymmetry]_vars

\* --- SpecPending: on an established session with both callbacks registered,
\* --- one caller going through subscribe, unsubscribe, disconnect_host,
\* --- connect_host and Connect() calls, MaxOps of them, which the transport
\* --- accepts, and registering a handler, while the network loop delivers,
\* --- over the connection there is, a SUBACK (or none), an UNSUBACK and a
\* --- message.
UnsubAckMids == { unsub_calls[i].mid : i \in { j \in DOMAIN unsub_calls : unsub_calls[j].rc = 0 } }

UnsubAckCodes == { << >>, <<0>>, <<128>> }

UnsubAcksSeen == Len(SelectSeq(link_events, LAMBDA e : e = "on_unsubscribe"))

NextPending ==
    \/ \E t \in OneCaller :
          /\ SubscribeCall(t, mw_topic, Request("list", SessionList))
          /\ frame'[t].rc = 0
    \/ \E t \in OneCaller : SubscribeRecord(t)
    \/ \E t \in OneCaller : SubscribeReturn(t)
    \/ \E t \in OneCaller :
          /\ Unsubscribe(t, mw_topic, Request("list", SessionList))
          /\ frame'[t].rc = 0
    \/ \E t \in OneCaller : DisconnectCall(t, Returns(IF HasSocket THEN 0 ELSE 4))
    \/ \E t \in OneCaller : DisconnectStop(t)
    \/ \E t \in OneCaller : ConnectCall(t, ConnectRequest("ok", "Success"), Returns(0))
    \/ \E t \in OneCaller : ConnectReturn(t)
    \/ \E t \in OneCaller : Construct(t)
    \/ \E t \in OneCaller : Len(returns) + 1 < MaxOps /\ NextCall(t)
    \/ /\ set_attrs = << >>
       /\ set_callback("on_feed_data_received", "h1")
    \/ \E d \in DeliveryThreads : OnConnect(d)
    \/ \E d \in DeliveryThreads : OnDisconnect(d)
    \/ \E d \in DeliveryThreads, mid \in suback_due :
          /\ state = "connected" /\ suback_log = << >>
          /\ OnSubscribeRead(d, mid, [i \in 1..Len(SessionList) |-> 0])
    \/ \E d \in DeliveryThreads : OnSubscribeDelete(d)
    \/ \E d \in DeliveryThreads, mid \in UnsubAckMids \cup {StrayMid}, codes \in UnsubAckCodes :
          /\ state = "connected" /\ UnsubAcksSeen = 0
          /\ OnUnsubscribe(d, mid, codes)
    \/ \E d \in DeliveryThreads :
          /\ state = "connected" /\ count = 0
          /\ OnMessageLookup(d, mw_topic \o S1, count + 1)
    \/ \E d \in DeliveryThreads : OnMessageInvoke(d)

InitPending ==
    /\ InitConnected
    /\ on_acknowledge_response \in AckCallbacks
    /\ on_error \in ErrorCallbacks

SpecPending == InitPending /\ [][NextPending]_vars

\* --- SpecOrder: the application registers handlers for two categories while
\* --- the network loop dispatches the messages of these categories, MaxMessages
\* --- of them; a handler called returns or raises.
OrderProperties == { "on_feed_data_received", "on_index_data_received" }

OrderCategories == { mw_topic, index_topic }

HandlerExceptions == { "ValueError" }

NextOrder ==
    \/ \E p \in OrderProperties, func \in DataHandlers \cup {None} : set_callback(p, func)
    \/ \E d \in DeliveryThreads, c \in OrderCategories :
          /\ count < MaxMessages
          /\ OnMessageLookup(d, c \o S1, count + 1)
    \/ \E d \in DeliveryThreads : OnMessageInvoke(d)
    \/ \E d \in DeliveryThreads, exc \in HandlerExceptions : OnMessageInvokeRaises(d, exc)

SpecOrder == InitDispatch /\ [][NextOrder]_vars

\* ------------------------------------------------------------- properties

\* The grammar of a topic suffix as the specification words it: a non-empty
\* string of digits, lowercase letters and '/'.
Digits == { "0", "1", "2", "3", "4", "5", "6", "7", "8", "9" }

LowerCase ==
    { "a", "b", "c", "d", "e", "f", "g", "h", "i", "j", "k", "l", "m",
      "n", "o", "p", "q", "r", "s", "t", "u", "v", "w", "x", "y", "z" }

IsValidSuffix(s) ==
    /\ s # << >>
    /\ \A i \in DOMAIN s : s[i] \in Digits \cup LowerCase \cup {"/"}

ValidSuffixes(list) == SelectSeq(list, IsValidSuffix)

InvalidSuffixes(list) ==
    LET Bad(s) == ~IsValidSuffix(s)
    IN  SelectSeq(list, Bad)

\* The (topic, qos) tuples the transport is to receive for a list.
ExpectedTopics(topic_prefix, list) ==
    LET v == ValidSuffixes(list)
    IN  [i \in 1..Len(v) |-> <<topic_prefix \o v[i], 0>>]

\* The per-topic failures as (suffix, code) pairs.
FailedPairs(failedTopics) ==
    [i \in 1..Len(failedTopics) |-> <<failedTopics[i].topic, failedTopics[i].resultCode>>]

ExpectedFailedPairs(list) ==
    LET b == InvalidSuffixes(list)
    IN  [i \in 1..Len(b) |-> <<b[i], 104>>]

Occurrences(seq, x) == Cardinality({ i \in DOMAIN seq : seq[i] = x })

\* Caller t has returned from operation op.
Returned(t, op) == pc[t] = "done" /\ frame[t].op = op

\* The request of t carried a list of 1..1024 suffix strings.
SuffixList(t) ==
    /\ frame[t].req.kind = "list"
    /\ Len(frame[t].req.list) \in 1..1024
    /\ \A i \in DOMAIN frame[t].req.list : IsStr(frame[t].req.list[i])

SubCallsBy(t) == { i \in DOMAIN sub_calls : sub_calls[i].by = t }

UnsubCallsBy(t) == { i \in DOMAIN unsub_calls : unsub_calls[i].by = t }

\* The i-th SUBACK delivered has been processed to the end of the handler.
AckProcessed(i) == i < Len(suback_log) \/ \A d \in DeliveryThreads : hpc[d] = "idle"

\* The i-th SUBACK was delivered after the subscribe call that obtained its id
\* had returned (with status 0: only an accepted call obtains an id).
DeliveredAfterReturn(i) == suback_log[i].caller_pc = "done"

AckEventsFor(mid) == { i \in DOMAIN ack_events : ack_events[i].for_mid = mid }

\* C1: a SUBACK for m delivered after subscribe returned m leaves m out of the
\* pending table, removed exactly once in all; no id is ever removed twice, no
\* id gets a second acknowledgment event from a repeated SUBACK, and nothing
\* is raised out of the handler.
C1_AckRemovesEntryOnce ==
    /\ \A i \in DOMAIN suback_log :
          (DeliveredAfterReturn(i) /\ AckProcessed(i))
             => /\ suback_log[i].mid \notin DOMAIN subscriptions
                /\ Occurrences(removed, suback_log[i].mid) = 1
    /\ \A m \in SeenMids :
          /\ Occurrences(removed, m) <= 1
          /\ Cardinality(AckEventsFor(m)) <= 1
    /\ escaped = << >>

\* C1, the case: two SUBACKs for one id, both delivered after the return and
\* both processed; the first gave the event, the second the error report.
C1_SecondAckSeen ==
    /\ Len(suback_log) = 2
    /\ suback_log[1].mid = suback_log[2].mid
    /\ DeliveredAfterReturn(1) /\ DeliveredAfterReturn(2)
    /\ AckProcessed(2)
    /\ removed = << suback_log[1].mid >>
    /\ Len(ack_events) = 1
    /\ Len(error_events) = 1
    /\ subscriptions = << >>

\* C2: the SUBACK handler never looks an id up while the caller that obtained
\* it stands between the transport call and the insertion.
C2_InsertionPrecedesAckLookup ==
    \A i \in DOMAIN suback_log : suback_log[i].caller_pc # "sub_called"

\* Every caller has returned, every accepted SUBSCRIBE has had its SUBACK, and
\* the handler is not running.
Quiescent ==
    /\ \A t \in CallerThreads : Returned(t, "subscribe")
    /\ suback_due = {}
    /\ \A d \in DeliveryThreads : hpc[d] = "idle"

AcceptedCalls == { i \in DOMAIN sub_calls : sub_calls[i].rc = 0 }

\* C3: at quiescence after concurrent subscribes for distinct categories, all
\* accepted and each acknowledged once, the pending table is empty and the
\* acknowledgment callback has received exactly one event per call.
C3_QuiescentTableEmptyOneEventEach ==
    (/\ Quiescent
     /\ on_acknowledge_response # None
     /\ Cardinality(AcceptedCalls) = NumCallers)
       => /\ subscriptions = << >>
          /\ Len(ack_events) = NumCallers
          /\ \A i \in AcceptedCalls : Cardinality(AckEventsFor(sub_calls[i].mid)) = 1

\* The category whose prefix a topic starts with.
CategoryOf(topic) ==
    CHOOSE c \in Categories : Len(c) <= Len(topic) /\ SubSeq(topic, 1, Len(c)) = c

\* C4: a message on prefix(c)+suffix reaches only a handler registered through
\* c's registration property (and no handler when c has none).
C4_DeliveredToCategoryHandlerOnly ==
    \A i \in DOMAIN handler_calls :
       \E p \in handler_calls[i].via :
          PropertyCategory(p) = CategoryOf(handler_calls[i].topic)

\* C5: a list of 1..1024 suffix strings, some invalid and at least one valid:
\* failedTopics holds exactly the invalid ones with code 104 in order, and the
\* one transport call gets exactly the valid ones, prefixed, in order.
C5_PartialBatchSplit ==
    \A t \in CallerThreads :
       (/\ Returned(t, "subscribe")
        /\ SuffixList(t)
        /\ ValidSuffixes(frame[t].req.list) # << >>
        /\ InvalidSuffixes(frame[t].req.list) # << >>)
          => /\ FailedPairs(result[t].failedTopics) = ExpectedFailedPairs(frame[t].req.list)
             /\ Cardinality(SubCallsBy(t)) = 1
             /\ \A i \in SubCallsBy(t) :
                   sub_calls[i].topics =
                      ExpectedTopics(frame[t].topic_prefix, frame[t].req.list)

\* C5, the case: an invalid suffix ahead of a valid one, submitted.
C5_MixedBatchSubmitted ==
    \E t \in CallerThreads :
       /\ Returned(t, "subscribe")
       /\ frame[t].req.list = << <<"A">>, <<"n", "/", "2">> >>
       /\ frame[t].topic_prefix = oi_topic
       /\ Len(sub_calls) = 1
       /\ sub_calls[1].rc = 0
       /\ Len(result[t].failedTopics) = 1

\* C6: a list of more than 1024 entries: status 102, no transport call, the
\* pending table as it was (empty).
C6_OversizedListRejected ==
    \A t \in CallerThreads :
       (/\ Returned(t, "subscribe")
        /\ frame[t].req.kind = "list"
        /\ Len(frame[t].req.list) > 1024)
          => /\ result[t].status = 102
             /\ sub_calls = << >>
             /\ subscriptions = << >>
             /\ recorded = << >>

\* C6, the case: 1025 valid suffixes.
C6_OversizedListSeen ==
    \E t \in CallerThreads :
       /\ Returned(t, "subscribe")
       /\ Len(frame[t].req.list) = 1025
       /\ frame[t].req.list[1025] = <<"1">>
       /\ result[t].status = 102

\* C7 as stated: n valid suffixes, 1 <= n <= 1024, give status 0 and an empty
\* failedTopics.
C7_AllValidStatusZero ==
    \A t \in CallerThreads :
       (/\ Returned(t, "subscribe")
        /\ SuffixList(t)
        /\ InvalidSuffixes(frame[t].req.list) = << >>)
          => /\ result[t].status = 0
             /\ result[t].failedTopics = << >>

\* C7, amended: n valid suffixes, 1 <= n <= 1024, give an empty failedTopics
\* and the status the one transport call reported, 0 when it accepted the
\* batch.
C7_AllValidStatusFromTransport ==
    \A t \in CallerThreads :
       (/\ Returned(t, "subscribe")
        /\ SuffixList(t)
        /\ InvalidSuffixes(frame[t].req.list) = << >>)
          => /\ result[t].failedTopics = << >>
             /\ Cardinality(SubCallsBy(t)) = 1
             /\ \A i \in SubCallsBy(t) : result[t].status = sub_calls[i].rc

\* C7, the case: 1024 valid suffixes accepted by the transport.
C7_FullBatchAccepted ==
    \E t \in CallerThreads :
       /\ Returned(t, "subscribe")
       /\ Len(frame[t].req.list) = 1024
       /\ frame[t].req.list[1024] = <<"1">>
       /\ result[t].status = 0
       /\ result[t].failedTopics = << >>

C9_PendingAtReturn ==
    \A t \in CallerThreads :
       (Returned(t, "subscribe") /\ result[t].status = 0)
          => /\ at_return[t] = "present"
             /\ Cardinality(SubCallsBy(t)) = 1

\* C9, amended: when subscribe returns status 0 the id has been recorded in
\* the pending table with exactly the prefixed valid topics sent to the
\* transport, in order, and is still there at the return unless its SUBACK
\* has been processed already; the transport call was issued once.
C9_RecordedBeforeReturn ==
    \A t \in CallerThreads :
       (Returned(t, "subscribe") /\ result[t].status = 0)
          => /\ Cardinality(SubCallsBy(t)) = 1
             /\ \A i \in SubCallsBy(t) :
                   /\ sub_calls[i].topics =
                         ExpectedTopics(frame[t].topic_prefix, frame[t].req.list)
                   /\ sub_calls[i].mid \in DOMAIN recorded
                   /\ recorded[sub_calls[i].mid] = sub_calls[i].topics
                   /\ \/ at_return[t] = "present"
                      \/ Occurrences(removed, sub_calls[i].mid) = 1

\* C9, the case: a partly valid batch returned with status 0 while its SUBACK
\* had not arrived, the table holding the entry.
C9_ReturnedWithEntry ==
    \E t \in CallerThreads :
       /\ Returned(t, "subscribe")
       /\ result[t].status = 0
       /\ at_return[t] = "present"
       /\ suback_log = << >>
       /\ Len(result[t].failedTopics) = 1
       /\ frame[t].mid \in DOMAIN subscriptions
       /\ Len(subscriptions[frame[t].mid]) = 1

\* C10: a transport subscribe or unsubscribe call that reports a non-zero
\* status: the result carries that status, no pending entry is created, and
\* the call is issued once.
C10_TransportFailureSurfaced ==
    \A t \in CallerThreads :
       /\ (Returned(t, "subscribe") /\ \E i \in SubCallsBy(t) : sub_calls[i].rc # 0)
             => /\ Cardinality(SubCallsBy(t)) = 1
                /\ \A i \in SubCallsBy(t) : result[t].status = sub_calls[i].rc
                /\ subscriptions = << >>
                /\ recorded = << >>
       /\ (Returned(t, "unsubscribe") /\ \E i \in UnsubCallsBy(t) : unsub_calls[i].rc # 0)
             => /\ Cardinality(UnsubCallsBy(t)) = 1
                /\ \A i \in UnsubCallsBy(t) : result[t].status = unsub_calls[i].rc
                /\ subscriptions = << >>
                /\ recorded = << >>

\* C10, the case: the transport is not connected (status 4) on a subscribe.
C10_NotConnectedSeen ==
    \E t \in CallerThreads :
       /\ Returned(t, "subscribe")
       /\ Len(sub_calls) = 1
       /\ sub_calls[1].rc = 4
       /\ result[t].status = 4
       /\ result[t].message = "The client is not currently connected."


\* The suffix a caller submitted for a topic name the transport was given.
SubmittedSuffix(name) == SubSeq(name, Len(CategoryOf(name)) + 1, Len(name))

\* The i-th SUBACK delivered found an entry pending for its id.
AckPending(i) == suback_log[i].pending # << >>

\* The per-topic results the i-th SUBACK is to give: the j-th reason code with
\* the j-th topic submitted, as many as the shorter of the two has.
ExpectedAckResults(i) ==
    LET codes == suback_log[i].reason_code_list
        entry == suback_log[i].pending
    IN  [j \in 1..Min(Len(codes), Len(entry)) |->
            [ topic |-> SubmittedSuffix(entry[j][1]),
              resultCode |-> codes[j],
              result |-> IF codes[j] = 0 THEN "Granted" ELSE "Not Granted" ]]

\* C11: a SUBACK for a pending id gives one acknowledgment event whose j-th
\* result pairs the j-th reason code with the j-th submitted topic (Granted iff
\* the code is 0); when the two lists differ in length the event carries as
\* many results as the shorter one, and nothing is raised out of the handler.
C11_CodesPairedWithTopics ==
    /\ \A i \in DOMAIN suback_log :
          (AckPending(i) /\ AckProcessed(i) /\ on_acknowledge_response # None)
             => \E k \in AckEventsFor(suback_log[i].mid) :
                   ack_events[k].subscriptionResult = ExpectedAckResults(i)
    /\ escaped = << >>

\* C12: the suffix s a caller submits comes back unchanged: the j-th result of
\* the acknowledgment event for an id carries as its topic exactly the suffix
\* of the j-th topic handed to the transport under that id, also when s itself
\* contains the marker "v1/".
C12_AckTopicIsSubmittedSuffix ==
    \A k \in DOMAIN ack_events :
       ack_events[k].packetName = "SUBACK"
          => \A j \in DOMAIN ack_events[k].subscriptionResult :
                ack_events[k].subscriptionResult[j].topic
                   = SubmittedSuffix(SubmittedTopics(ack_events[k].for_mid)[j][1])

\* C13: the dispatcher cuts the inbound topic at the first "v1/" only: the
\* handler of a message on prefix p followed by suffix s is called with s whole,
\* so the key looked up followed by the suffix passed is the inbound topic, also
\* when s itself contains "v1/".
C13_HandlerGetsWholeSuffix ==
    \A i \in DOMAIN handler_calls :
       /\ handler_calls[i].prefix = CategoryOf(handler_calls[i].topic)
       /\ handler_calls[i].prefix \o handler_calls[i].suffix = handler_calls[i].topic

\* What the error callback has received once one more exception was reported.
ErrorForwarded ==
    IF on_error = None THEN error_events' = error_events
    ELSE /\ Len(error_events') = Len(error_events) + 1
         /\ error_events'[Len(error_events')].code = StatusException

\* The handler leaves the table and the acknowledgment events as they are and
\* raises nothing.
AckDropped ==
    /\ subscriptions' = subscriptions
    /\ removed' = removed
    /\ ack_events' = ack_events
    /\ escaped' = escaped

\* C14: a SUBACK whose id has no entry in the pending table is dropped. Where
\* the handler finds no entry for the id, at its lookup and at its deletion, it
\* emits no acknowledgment event, leaves the table unchanged and raises nothing;
\* when it ends there, the failure has gone to the error callback if one is
\* registered.
C14_UnknownAckDropped ==
    [][ \A d \in DeliveryThreads :
          /\ ( /\ hpc[d] = "idle"
               /\ Len(suback_log') = Len(suback_log) + 1
               /\ ~AckPending(Len(suback_log))' )
                => /\ AckDropped
                   /\ hpc'[d] = "idle" => ErrorForwarded
                   /\ hpc'[d] # "idle" => error_events' = error_events
          /\ ( /\ hpc[d] = "suback_loop_done"
               /\ hpc'[d] = "idle"
               /\ hframe[d].mid \notin DOMAIN subscriptions )
                => AckDropped /\ ErrorForwarded
      ]_vars

\* C14, the case: two SUBACKs for an id no subscribe obtained have been handled
\* to the end while an entry of a subscribe was pending, one with a reason code
\* (the lookup's default fails) and one without (the deletion fails); the table
\* still holds the entry, no event was emitted, both failures were reported.
C14_UnknownAcksSeen ==
    /\ Len(suback_log) = 2
    /\ \A i \in DOMAIN suback_log :
          suback_log[i].mid = StrayMid /\ ~AckPending(i) /\ AckProcessed(i)
    /\ suback_log[1].reason_code_list # << >>
    /\ suback_log[2].reason_code_list = << >>
    /\ DOMAIN subscriptions # {}
    /\ removed = << >>
    /\ on_error # None /\ Len(error_events) = 2
    /\ on_acknowledge_response # None /\ ack_events = << >>
    /\ escaped = << >>

\* The topic name was among those caller t handed to the transport.
HandedToTransport(t, name) ==
    \/ \E i \in SubCallsBy(t) :
          \E j \in DOMAIN sub_calls[i].topics : sub_calls[i].topics[j][1] = name
    \/ \E i \in UnsubCallsBy(t) :
          \E j \in DOMAIN unsub_calls[i].topics : unsub_calls[i].topics[j] = name

\* The suffix is among the per-topic failures returned to caller t.
ReportedInvalid(t, s) ==
    \E j \in DOMAIN result[t].failedTopics :
       /\ result[t].failedTopics[j].topic = s
       /\ result[t].failedTopics[j].resultCode = StatusInvalidTopic

\* C20: the builders of subscribe and of unsubscribe accept an entry exactly
\* when the whole of it is a non-empty string of digits, lowercase letters and
\* '/': an accepted entry is handed to the transport under the prefix and not
\* reported, any other (empty, or with an uppercase letter, punctuation, a
\* blank or a newline anywhere, the end included) is reported invalid and not
\* handed to the transport.
C20_AcceptedIffGrammar ==
    \A t \in CallerThreads :
       ((Returned(t, "subscribe") \/ Returned(t, "unsubscribe")) /\ SuffixList(t))
          => \A i \in DOMAIN frame[t].req.list :
                LET s == frame[t].req.list[i]
                    name == frame[t].topic_prefix \o s
                IN  /\ IsValidSuffix(s) <=> HandedToTransport(t, name)
                    /\ IsValidSuffix(s) <=> ~ReportedInvalid(t, s)

\* C20, the case: an unsubscribe of a suffix that is a digit followed by a
\* newline has returned; the suffix was reported invalid and the transport was
\* not called.
C20_TrailingNewlineRejected ==
    /\ Returned(1, "unsubscribe")
    /\ frame[1].req.list = << SNewline >>
    /\ ReportedInvalid(1, SNewline)
    /\ unsub_calls = << >>
    /\ result[1].status = StatusNothingValid

\* Caller t enters operation op in this step.
Enters(t, op) == pc[t] = "idle" /\ pc'[t] # "idle" /\ frame'[t].op = op

\* The request meets the preconditions of connect up to the connection test:
\* it parses, it carries a token, and the identity service accepts the token.
TokenAccepted(req) == req.kind \in {"ok", "nohost"} /\ req.verdict = "Success"

LastCompleted(t, op) ==
    \/ pc[t] = "done" /\ frame[t].op = op
    \/ /\ pc[t] = "idle"
       /\ returns # << >>
       /\ returns[Len(returns)].by = t
       /\ returns[Len(returns)].op = op

\* A transport callback starts in this step.
CallbackStarts ==
    \/ link_events' # link_events
    \/ suback_log' # suback_log
    \/ count' # count

\* C16: disconnect stops the delivery loop after the transport's disconnect
\* call, whatever that call came to (status 0, another status, an exception):
\* once disconnect has returned there is no loop thread, and no transport
\* callback starts until the caller's next operation.
C16_NoCallbackAfterDisconnect ==
    [][ \A t \in CallerThreads :
          LastCompleted(t, "disconnect") => (loop_thread = "none" /\ ~CallbackStarts)
      ]_vars

\* C17: disconnect called twice in a row, in whatever state the transport is,
\* ends both times with a result: a disconnect that has made the transport call
\* comes to its return (it does not wait for ever on the loop thread), every
\* disconnect that has ended has returned the status of the transport call or
\* -1, and none has raised.
C17_DisconnectTerminates ==
    /\ \A t \in OneCaller : (pc[t] = "disc_called") ~> (pc[t] = "done")
    /\ [](\A t \in OneCaller :
             /\ pc[t] # "raised"
             /\ Returned(t, "disconnect") => result[t].status \in {0, 4, StatusException})
    /\ [](\A i \in DOMAIN escaped : escaped[i].where # "disconnect_host")

\* C17, the case: the caller has disconnected a session whose loop thread was
\* running and has then disconnected again; both calls have returned, the first
\* with status 0 and the second with the transport's "not connected".
C17_DisconnectedTwice ==
    /\ Len(returns) = 2
    /\ returns[1].op = "connect"
    /\ returns[2] = [op |-> "disconnect", by |-> 1, ended |-> "done"]
    /\ Returned(1, "disconnect")
    /\ Len(link_calls) = 6
    /\ link_calls[3] = LinkCall("disconnect", Returns(0))
    /\ link_calls[4] = LinkCall("loop_stop", Returns(0))
    /\ link_calls[5] = LinkCall("disconnect", Returns(4))
    /\ link_calls[6] = LinkCall("loop_stop", Returns(3))
    /\ result[1].status = 4
    /\ loop_thread = "none"

\* C18: every public operation returns a result on every path and never
\* raises, whatever the request, the outcome of the transport, the exception
\* inside and the registration of the error callback: no caller is left with an
\* exception, and a caller whose operation has ended holds a result with a
\* status.
C18_PublicOperationsReturn ==
    \A t \in CallerThreads :
       /\ pc[t] # "raised"
       /\ pc[t] = "done" => result[t] # NoResult
       /\ \A i \in DOMAIN escaped :
             escaped[i].where \notin {"connect_host", "disconnect_host"}

\* The request of t makes the operation raise an exception while the request is
\* built: text that is not JSON, JSON without the list key, or a list (of legal
\* length) with an entry that is not a string, which the validator cannot
\* match.
RaisesWhileBuilding(t) ==
    \/ frame[t].req.kind \in {"badjson", "nokey"}
    \/ /\ frame[t].req.kind = "list"
       /\ Len(frame[t].req.list) \in 1..TopicLimit
       /\ \E i \in DOMAIN frame[t].req.list : ~IsStr(frame[t].req.list[i])

\* C19: an exception raised while a request is built (the validation of the
\* list entries included) gives a result with status -1, and the exception is
\* forwarded to the error callback if one is registered.
C19_ExceptionGivesMinusOne ==
    \A t \in CallerThreads :
       ((Returned(t, "subscribe") \/ Returned(t, "unsubscribe")) /\ RaisesWhileBuilding(t))
          => /\ result[t].status = StatusException
             /\ on_error # None =>
                   \E i \in DOMAIN error_events : error_events[i].code = StatusException

\* C21: a subscribe result with status 0 has the message "Subscription
\* partially sent" exactly when its failedTopics is not empty, and the
\* transport's message for success exactly when it is empty.
C21_PartialMessageIffFailures ==
    \A t \in CallerThreads :
       (Returned(t, "subscribe") /\ result[t].status = 0)
          => /\ result[t].message = "Subscription partially sent"
                   <=> result[t].failedTopics # << >>
             /\ result[t].message = error_string(0)
                   <=> result[t].failedTopics = << >>

\* C21, the case: a subscribe of an invalid suffix followed by a valid one has
\* returned status 0 with the one failure listed and the partial message.
C21_PartialSeen ==
    /\ Returned(1, "subscribe")
    /\ frame[1].req.list = << SUpper, S1 >>
    /\ result[1].status = 0
    /\ Len(result[1].failedTopics) = 1
    /\ result[1].message = "Subscription partially sent"

\* C22: a null or empty request given to subscribe, unsubscribe or connect_host
\* returns status 101 in the same step; no call reaches the transport (no
\* subscribe, unsubscribe, connect or loop call) and the pending table is as it
\* was.
C22_NullRequestRejected ==
    [][ \A t \in CallerThreads :
          ( /\ Enters(t, "subscribe") \/ Enters(t, "unsubscribe") \/ Enters(t, "connect")
            /\ frame'[t].req.kind = "null" )
             => /\ pc'[t] = "done"
                /\ result'[t].status = StatusNullRequest
                /\ result'[t].message = "Request cannot be null"
                /\ UNCHANGED transport_vars
                /\ link_calls' = link_calls
                /\ subscriptions' = subscriptions
      ]_vars

\* C22, the case: on a connected session with an entry pending, a null request
\* to unsubscribe has returned 101, after a connect and a subscribe that the
\* transport accepted; the transport has seen no unsubscribe call.
C22_NullRequestSeen ==
    /\ Returned(1, "unsubscribe")
    /\ frame[1].req.kind = "null"
    /\ result[1].status = StatusNullRequest
    /\ state = "connected"
    /\ DOMAIN subscriptions # {}
    /\ Len(sub_calls) = 1
    /\ unsub_calls = << >>

\* The names of the topics of the subscribe call i, in the order given.
SubscribedNames(i) == [ j \in DOMAIN sub_calls[i].topics |-> sub_calls[i].topics[j][1] ]

\* C23: a subscribe and an unsubscribe that were given the same category and
\* the same request, and to which the transport (if asked) reported the same
\* status, have returned the same status and the same failedTopics; the one
\* asked the transport exactly when the other did, and with the same prefixed
\* topics in the same order.
C23_UnsubscribeMirrorsSubscribe ==
    \A t, u \in CallerThreads :
       ( /\ Returned(t, "subscribe") /\ Returned(u, "unsubscribe")
         /\ frame[t].topic_prefix = frame[u].topic_prefix
         /\ frame[t].req = frame[u].req
         /\ (SubCallsBy(t) # {} /\ UnsubCallsBy(u) # {}) => frame[t].rc = frame[u].rc )
          => /\ result[t].status = result[u].status
             /\ result[t].failedTopics = result[u].failedTopics
             /\ SubCallsBy(t) = {} <=> UnsubCallsBy(u) = {}
             /\ \A i \in SubCallsBy(t), k \in UnsubCallsBy(u) :
                   SubscribedNames(i) = unsub_calls[k].topics

\* C23, the case: both calls were given the list (invalid, valid) for the
\* market feed, the transport accepted both, and each returned status 0 with the
\* one failure after handing over the one prefixed topic.
C23_MirroredPartial ==
    /\ Returned(1, "subscribe") /\ Returned(2, "unsubscribe")
    /\ frame[1].topic_prefix = mw_topic /\ frame[2].topic_prefix = mw_topic
    /\ frame[1].req.list = << SUpper, S1 >> /\ frame[2].req = frame[1].req
    /\ result[1].status = 0 /\ result[2].status = 0
    /\ Len(result[2].failedTopics) = 1
    /\ unsub_calls # << >>
    /\ unsub_calls[1].topics = << mw_topic \o S1 >>

\* C24: reading a registration property returns what was last assigned to it,
\* the handler or None.
C24_RegistrationRoundTrip ==
    \A p \in DOMAIN set_attrs : property_get(p) = set_attrs[p]

\* What was most recently assigned to the registration property of the
\* category with prefix c: a handler, or None (also when nothing was assigned).
LastRegistered(c) ==
    IF \E p \in DOMAIN set_attrs : PropertyCategory(p) = c
    THEN set_attrs[CHOOSE p \in DOMAIN set_attrs : PropertyCategory(p) = c]
    ELSE None

\* C25: last writer wins per prefix: a handler invoked for a message on prefix
\* p is the one most recently registered for p, and a message that arrives on p
\* when null was the last registration for p (or none was made) is taken to no
\* handler and reports no error.
C25_LastRegistrationWins ==
    [][ /\ Len(handler_calls') > Len(handler_calls)
           => handler_calls'[Len(handler_calls')].handler =
                 LastRegistered(handler_calls'[Len(handler_calls')].prefix)
        /\ \A d \in DeliveryThreads :
              (hpc[d] = "idle" /\ count' = count + 1)
                 => /\ error_events' = error_events
                    /\ hpc'[d] = "message_found"
                          => LastRegistered(LookupKey(hframe'[d].split_topic)) # None
      ]_vars

\* The request parses and carries a token, and the identity service does not
\* accept the token (it answers with a failure, or the call to it fails).
TokenRejected(req) == req.kind \in {"ok", "nohost"} /\ req.verdict # "Success"

\* C26: a connect request whose token is not accepted returns at once a status
\* that is not 0, not a status of the transport's connect, not 105 and not -1;
\* the transport sees no connect call, no loop is started, the connection is as
\* it was, and the one validation made reports at most its own failure.
C26_RejectedTokenStatus ==
    [][ \A t \in CallerThreads :
          (Enters(t, "connect") /\ TokenRejected(frame'[t].req))
             => /\ pc'[t] = "done"
                /\ result'[t].status \notin
                      TransportStatuses \cup {0, StatusAlreadyConnected, StatusException}
                /\ link_calls' = link_calls
                /\ loop_thread' = loop_thread
                /\ state' = state
                /\ Len(error_events') <= Len(error_events) + 1
                /\ Len(error_events') > Len(error_events)
                      => frame'[t].req.verdict = "Exception"
      ]_vars

\* C26, the case: on a connected session, a connect request whose token the
\* identity service refused has returned status 1; the transport has seen only
\* the connect call and the loop start of the first request.
C26_RejectedWhileConnected ==
    /\ Returned(1, "connect")
    /\ frame[1].req = ConnectRequest("ok", "Failure")
    /\ result[1].status = StatusTokenRejected
    /\ state = "connected" /\ loop_thread = "running"
    /\ link_calls = << LinkCall("connect", Returns(0)), LinkCall("loop_start", Returns(0)) >>

\* The executions of the subscribe-ack handler in progress.
AckExecutions == { d \in DeliveryThreads : hpc[d] \in {"suback_loop_done"} }

C28_RegistryStableDuringDispatch ==
    [][ \A d \in DeliveryThreads :
          hpc[d] = "message_found"
             => /\ Get(topic_handler', LookupKey(hframe[d].split_topic))
                      = Get(topic_handler, LookupKey(hframe[d].split_topic))
                /\ Get(topic_handler, LookupKey(hframe[d].split_topic)) # None
      ]_vars

\* The step hands a call of the given name to the transport.
TransportCalled(call) ==
    /\ Len(link_calls') = Len(link_calls) + 1
    /\ link_calls'[Len(link_calls')].call = call

\* C29: whenever connect_host issues the transport's connect call, whatever
\* the call comes to, the five transport callbacks (message, connect,
\* disconnect, subscribe, unsubscribe) are bound by then.
C29_BindingsBeforeConnect ==
    [][ TransportCalled("connect") => bindings' = TransportCallbacks ]_vars

\* C29, the case: the first connect request of a new client has made the
\* transport call, which returned 0; the five callbacks are bound and the loop
\* is not started yet.
C29_BoundAtFirstConnect ==
    /\ pc[1] = "conn_called"
    /\ link_calls = << LinkCall("connect", Returns(0)) >>
    /\ bindings = TransportCallbacks
    /\ Cardinality(bindings) = 5
    /\ loop_thread = "none"

\* C30: connect_host starts the loop exactly when the transport's connect call
\* returned 0, and returns the status the call returned; when the call raised,
\* the loop is left alone and the caller gets a result with status -1.
C30_LoopStartedIffAccepted ==
    [][ /\ \A t \in CallerThreads :
             (pc[t] = "conn_called" /\ pc'[t] # "conn_called")
                => /\ pc'[t] = "done"
                   /\ result'[t].status = frame[t].rc
                   /\ TransportCalled("loop_start") <=> frame[t].rc = 0
                   /\ frame[t].rc # 0 => loop_thread' = loop_thread
        /\ TransportCalled("loop_start")
              => \E t \in CallerThreads : pc[t] = "conn_called" /\ frame[t].rc = 0
        /\ \A t \in CallerThreads :
             ( /\ Enters(t, "connect")
               /\ TransportCalled("connect")
               /\ link_calls'[Len(link_calls')].outcome.exc # None )
                => /\ loop_thread' = loop_thread
                   /\ pc'[t] = "done"
                   /\ result'[t].status = StatusException
      ]_vars

\* The step is the end of a subscribe-ack handler that was run for mid.
AckHandlerEnds(mid) ==
    \E d \in DeliveryThreads :
       hpc[d] = "suback_loop_done" /\ hframe[d].mid = mid /\ hpc'[d] = "idle"

\* C31: an entry leaves the pending table only in the step that ends the
\* subscribe-ack handler for its id, and is never altered: connect, disconnect,
\* unsubscribe, the unsubscribe-ack, dispatch, registration and construction
\* leave it as it is, and an entry recorded whose SUBACK has not been delivered
\* is in the table.
C31_OnlyAckRemovesEntry ==
    [][ /\ \A mid \in DOMAIN subscriptions :
             IF mid \in DOMAIN subscriptions'
             THEN subscriptions'[mid] = subscriptions[mid]
             ELSE AckHandlerEnds(mid)
        /\ \A mid \in DOMAIN recorded :
             (\A i \in DOMAIN suback_log : suback_log[i].mid # mid)
                => mid \in DOMAIN subscriptions
      ]_vars

\* C31, the case: the SUBACK of an accepted subscribe never came; the caller
\* went on to disconnect and to connect again, a message was dispatched to a
\* registered handler and an UNSUBACK was delivered, and the entry is still
\* pending.
C31_EntryOutlivesSession ==
    /\ Len(returns) = 2
    /\ returns[1].op = "subscribe" /\ returns[2].op = "disconnect"
    /\ Returned(1, "connect") /\ result[1].status = 0
    /\ suback_log = << >>
    /\ DOMAIN subscriptions = {1}
    /\ subscriptions[1] = << <<mw_topic \o SInnerV1, 0>> >>
    /\ handler_calls # << >>
    /\ UnsubAcksSeen = 1

\* The step is the delivery of an UNSUBACK to the unsubscribe-ack handler.
UnsubAckDelivered ==
    /\ Len(link_events') = Len(link_events) + 1
    /\ link_events'[Len(link_events')] = "on_unsubscribe"

\* C32: an UNSUBACK delivered, whatever its message id and reason codes, hands
\* the registered acknowledgment callback one event more, with packetName
\* UNSUBACK, status 0 and the fixed message; the pending table is as it was,
\* and nothing is reported or raised.
C32_UnsubAckFixedEvent ==
    [][ (UnsubAckDelivered /\ on_acknowledge_response # None)
           => /\ ack_events' =
                    Append(ack_events,
                           [ status |-> 0, message |-> "Unsubscribed Successfully",
                             packetName |-> "UNSUBACK" ])
              /\ subscriptions' = subscriptions
              /\ error_events' = error_events
              /\ escaped' = escaped
      ]_vars

\* C32, the case: an UNSUBACK was delivered while an entry was pending; the
\* one event it gave is the last, and the entry is still there.
C32_UnsubAckSeen ==
    /\ UnsubAcksSeen = 1
    /\ link_events[Len(link_events)] = "on_unsubscribe"
    /\ ack_events # << >>
    /\ ack_events[Len(ack_events)].packetName = "UNSUBACK"
    /\ ack_events[Len(ack_events)].status = 0
    /\ unsub_calls # << >>
    /\ DOMAIN subscriptions # {}

\* C33: no buffering, no reordering: the invocations are made in the order in
\* which the transport delivered the messages (a message's payload is its
\* number in that order), each message invokes a handler at most once, and the
\* message being dispatched is the last one delivered: none waits behind it.
C33_DispatchInDeliveryOrder ==
    /\ \A i, j \in DOMAIN handler_calls :
          i < j => handler_calls[i].payload < handler_calls[j].payload
    /\ \A i \in DOMAIN handler_calls : handler_calls[i].payload \in 1..count
    /\ \A d \in DeliveryThreads :
          hpc[d] = "message_found" => hframe[d].payload = count

\* C33, the case: two messages on one prefix were delivered and the handler
\* registered for it was invoked with the first, then with the second.
C33_TwoInOrder ==
    /\ Len(handler_calls) = 2
    /\ handler_calls[1].prefix = handler_calls[2].prefix
    /\ handler_calls[1].handler = handler_calls[2].handler
    /\ handler_calls[1].payload = 1
    /\ handler_calls[2].payload = 2

\* The number of topics caller t handed to the transport.
HandedCount(t) ==
    IF SubCallsBy(t) \cup UnsubCallsBy(t) = {} THEN 0
    ELSE IF frame[t].op = "subscribe"
         THEN Len(sub_calls[CHOOSE i \in SubCallsBy(t) : TRUE].topics)
         ELSE Len(unsub_calls[CHOOSE i \in UnsubCallsBy(t) : TRUE].topics)

\* C34: a subscribe or unsubscribe that has returned: an empty list or one of
\* more than 1024 entries got status 102 and no transport call; a list of
\* exactly 1024 suffix strings was validated (status other than 102, every
\* entry either handed to the transport or in failedTopics); and no suffix
\* reported in failedTopics, nor any entry outside the validator's pattern,
\* was handed to the transport.
C34_FailuresNeverSent ==
    \A t \in CallerThreads :
       ((Returned(t, "subscribe") \/ Returned(t, "unsubscribe")) /\ frame[t].req.kind = "list")
          => LET list == frame[t].req.list
             IN  /\ (list = << >> \/ Len(list) >= TopicLimit + 1)
                      => /\ result[t].status = StatusTopicCount
                         /\ SubCallsBy(t) \cup UnsubCallsBy(t) = {}
                 /\ (Len(list) = TopicLimit /\ SuffixList(t))
                      => /\ result[t].status # StatusTopicCount
                         /\ HandedCount(t) + Len(result[t].failedTopics) = TopicLimit
                 /\ \A i \in DOMAIN list :
                       (~IsStr(list[i]) \/ ~fullmatch(list[i]) \/ ReportedInvalid(t, list[i]))
                          => ~HandedToTransport(t, frame[t].topic_prefix \o list[i])

\* C34, the case: an unsubscribe of exactly 1024 uppercase suffixes has
\* returned: all were validated and reported, none reached the transport.
C34_FullListAllFailed ==
    /\ Returned(1, "unsubscribe")
    /\ Len(frame[1].req.list) = TopicLimit
    /\ frame[1].req.list[TopicLimit] = SUpper
    /\ result[1].status = StatusNothingValid
    /\ Len(result[1].failedTopics) = TopicLimit
    /\ unsub_calls = << >>

\* The step assigns to registration property p (a handler or None) a value
\* other than the one last assigned to it.
Assigns(p) ==
    /\ p \in DOMAIN set_attrs'
    /\ p \notin DOMAIN set_attrs \/ set_attrs'[p] # set_attrs[p]

\* C35: an assignment to the registration property of one category leaves the
\* handler the registry holds for every other category as it was.
C35_OtherCategoriesUntouched ==
    [][ \A p \in Properties :
           Assigns(p)
              => \A c \in Categories \ {PropertyCategory(p)} :
                    Get(topic_handler', c) = Get(topic_handler, c)
      ]_vars

\* A transport connect call is outstanding: the transport accepted a CONNECT
\* whose CONNACK has not arrived, or a caller is between the transport's
\* connect and the end of connect_host.
ConnectOutstanding ==
    \/ state = "connecting"
    \/ \E t \in CallerThreads : pc[t] = "conn_called"

\* C36: connect_host issues no transport connect call while one is
\* outstanding, and the loop thread is started only when there is none.
C36_OneConnectOutstanding ==
    [][ /\ TransportCalled("connect") => ~ConnectOutstanding
        /\ (TransportCalled("loop_start") /\ link_calls'[Len(link_calls')].outcome.rc = 0)
              => loop_thread = "none"
      ]_vars

\* C37: a subscribe or unsubscribe of a list of 1..1024 entries has returned:
\* the topics handed to the transport and the failedTopics returned are
\* together as many as the entries submitted, whatever the entries are.
C37_EveryEntryAccounted ==
    \A t \in CallerThreads :
       (/\ Returned(t, "subscribe") \/ Returned(t, "unsubscribe")
        /\ frame[t].req.kind = "list"
        /\ Len(frame[t].req.list) \in 1..TopicLimit)
          => HandedCount(t) + Len(result[t].failedTopics) = Len(frame[t].req.list)

\* C38: a SUBACK that found its id pending, processed to the end with an
\* acknowledgment callback registered, has produced exactly one
\* acknowledgment event for the id, whatever its reason-code list.
C38_PendingAckGivesOneEvent ==
    \A i \in DOMAIN suback_log :
       (AckPending(i) /\ AckProcessed(i) /\ on_acknowledge_response # None)
          => Cardinality(AckEventsFor(suback_log[i].mid)) = 1

\* The step is a data handler called with a message and raising.
HandlerRaises ==
    /\ Len(handler_calls') = Len(handler_calls) + 1
    /\ "raised" \in DOMAIN handler_calls'[Len(handler_calls')]

\* C39: a registered data handler raises while a message is dispatched: the
\* exception goes to the error callback if one is registered and nowhere else,
\* the registry and the pending table stay as they were, and the loop thread
\* is left running, idle, with its callbacks bound and the handler still
\* registered, so that the messages that follow are dispatched.
C39_HandlerExceptionContained ==
    [][ HandlerRaises
           => /\ ErrorForwarded
              /\ escaped' = escaped
              /\ topic_handler' = topic_handler
              /\ subscriptions' = subscriptions
              /\ loop_thread' = "running" /\ bindings' = bindings
              /\ \A d \in DeliveryThreads : hpc'[d] = "idle"
      ]_vars

\* C39, the case: the handler of the first message raised, the error callback
\* got the exception, and the second message has been handed to the same
\* handler.
C39_DispatchedAfterRaise ==
    /\ Len(handler_calls) = 2
    /\ "raised" \in DOMAIN handler_calls[1]
    /\ "raised" \notin DOMAIN handler_calls[2]
    /\ handler_calls[1].payload = 1 /\ handler_calls[2].payload = 2
    /\ handler_calls[2].handler = handler_calls[1].handler
    /\ handler_calls[2].prefix = handler_calls[1].prefix
    /\ Len(error_events) = 1 /\ error_events[1].code = StatusException
    /\ escaped = << >>

\* The step is a construction Connect() made by caller t, from call to return.
Constructs(t) == pc[t] = "idle" /\ pc'[t] = "done" /\ frame'[t].op = "construct"

====
